---- MODULE Spec2Model ----
(***************************************************************************)
(* A model of mediocre-api's auth core: the sig package (signed, expiring  *)
(* envelopes), the usertok and apitok token types built on it, the         *)
(* time-debt rate limiter and the request gate (authHandler.ServeHTTP).    *)
(*                                                                         *)
(* Strings and byte slices are sequences of byte values 0..255, so that    *)
(* base64, the ':' delimiter and time.Time's binary form are modelled by   *)
(* what they do to bytes.                                                  *)
(***************************************************************************)
EXTENDS Integers, Sequences, FiniteSets, TLC

\* ------------------------------------------------------------------------
\* Bounds
\* ------------------------------------------------------------------------

\* The clock runs over 1..MaxTime (time.Now() in whole ticks)
MaxTime == 3

\* The largest ttl handed to sig.New by the driver
MaxTTL == 1

\* The number of requests the gate driver sends
MaxRequests == 2

\* ------------------------------------------------------------------------
\* Bytes, strings
\* ------------------------------------------------------------------------

\* ':' the delimiter of sig.New
Colon == 58

\* '=' base64.StdPadding
Pad == 61

\* '\n' and '\r', which encoding/base64 skips while decoding
LF == 10
CR == 13

\* The value Extract returns for "can't be decoded, verified, or has timed
\* out": Go's nil slice, which is distinct from the empty non-nil slice
Nil == <<-1>>

\* strings.IndexByte(s, c), 0-based, -1 when c does not occur
RECURSIVE IndexFrom(_, _, _)
IndexFrom(s, c, i) ==
    IF i > Len(s) THEN -1
    ELSE IF s[i] = c THEN i - 1
    ELSE IndexFrom(s, c, i + 1)

IndexByte(s, c) == IndexFrom(s, c, 1)

\* s[:i] and s[i:] of Go, i 0-based
Prefix(s, i) == SubSeq(s, 1, i)
Suffix(s, i) == SubSeq(s, i + 1, Len(s))

\* ------------------------------------------------------------------------
\* encoding/base64, StdEncoding
\* ------------------------------------------------------------------------

\* the standard alphabet: value 0..63 -> character
Enc6(v) ==
    IF v < 26 THEN 65 + v
    ELSE IF v < 52 THEN 97 + (v - 26)
    ELSE IF v < 62 THEN 48 + (v - 52)
    ELSE IF v = 62 THEN 43
    ELSE 47

\* decodeMap: character -> value 0..63, or -1 (0xff in Go) outside the alphabet
Dec6(c) ==
    IF c >= 65 /\ c <= 90 THEN c - 65
    ELSE IF c >= 97 /\ c <= 122 THEN c - 97 + 26
    ELSE IF c >= 48 /\ c <= 57 THEN c - 48 + 52
    ELSE IF c = 43 THEN 62
    ELSE IF c = 47 THEN 63
    ELSE -1

\* StdEncoding.EncodeToString
RECURSIVE B64Encode(_)
B64Encode(b) ==
    IF Len(b) = 0 THEN <<>>
    ELSE IF Len(b) = 1 THEN
        <<Enc6(b[1] \div 4), Enc6((b[1] % 4) * 16), Pad, Pad>>
    ELSE IF Len(b) = 2 THEN
        <<Enc6(b[1] \div 4), Enc6((b[1] % 4) * 16 + (b[2] \div 16)),
          Enc6((b[2] % 16) * 4), Pad>>
    ELSE
        <<Enc6(b[1] \div 4), Enc6((b[1] % 4) * 16 + (b[2] \div 16)),
          Enc6((b[2] % 16) * 4 + (b[3] \div 64)), Enc6(b[3] % 64)>>
        \o B64Encode(SubSeq(b, 4, Len(b)))

\* the decoder drops '\r' and '\n' wherever they stand
RECURSIVE StripNewlines(_)
StripNewlines(s) ==
    IF Len(s) = 0 THEN <<>>
    ELSE IF s[1] = LF \/ s[1] = CR THEN StripNewlines(Tail(s))
    ELSE <<s[1]>> \o StripNewlines(Tail(s))

\* the quanta of a newline-free string: groups of four alphabet characters,
\* the last group possibly "xx==" or "xxx=". The low bits of the last
\* character before the padding are not checked (StdEncoding is not Strict).
RECURSIVE DecodeQuanta(_)
DecodeQuanta(t) ==
    IF Len(t) = 0 THEN <<>>
    ELSE IF Len(t) < 4 THEN Nil
    ELSE LET a == Dec6(t[1])
             b == Dec6(t[2])
             c == Dec6(t[3])
             d == Dec6(t[4])
         IN  IF a < 0 \/ b < 0 THEN Nil
             ELSE IF c >= 0 /\ d >= 0 THEN
                 LET rest == DecodeQuanta(SubSeq(t, 5, Len(t)))
                 IN  IF rest = Nil THEN Nil
                     ELSE <<a * 4 + (b \div 16), (b % 16) * 16 + (c \div 4),
                            (c % 4) * 64 + d>> \o rest
             ELSE IF Len(t) > 4 THEN Nil
             ELSE IF c >= 0 /\ t[4] = Pad THEN
                 <<a * 4 + (b \div 16), (b % 16) * 16 + (c \div 4)>>
             ELSE IF t[3] = Pad /\ t[4] = Pad THEN
                 <<a * 4 + (b \div 16)>>
             ELSE Nil

\* StdEncoding.DecodeString; Nil stands for err != nil
B64Decode(s) == DecodeQuanta(StripNewlines(s))

\* ------------------------------------------------------------------------
\* time.Time as sig uses it
\* ------------------------------------------------------------------------

\* timeBinaryVersion, the first byte of Time.MarshalBinary
TimeBinaryVersion == 1

\* the length UnmarshalBinary insists on: version, seconds (2 bytes here),
\* nanoseconds (1 byte here), zone offset (2 bytes)
TimeBinaryLen == 6

\* the zero time.Time
ZeroTime == [sec |-> 0, nsec |-> 0]

\* time.Now() at clock value t
TimeAt(t) == [sec |-> t, nsec |-> 0]

\* Time.Add
TimeAdd(t, d) == [sec |-> t.sec + d, nsec |-> t.nsec]

\* After read as "not before": the expiry instant itself counts as past
AfterOrAt(t, u) == t.sec > u.sec \/ (t.sec = u.sec /\ t.nsec >= u.nsec)

\* Time.After
After(t, u) == t.sec > u.sec \/ (t.sec = u.sec /\ t.nsec > u.nsec)

\* Time.IsZero
IsZero(t) == t.sec = 0 /\ t.nsec = 0

\* Time.MarshalBinary of a UTC time: zone offset -1
MarshalBinary(t) ==
    <<TimeBinaryVersion, (t.sec \div 256) % 256, t.sec % 256, t.nsec % 256,
      255, 255>>

\* UnmarshalBinary without its version check
UnmarshalOKAnyVersion(b) == Len(b) = TimeBinaryLen

\* Time.UnmarshalBinary succeeds: data present, known version, exact length
UnmarshalOK(b) ==
    /\ Len(b) > 0
    /\ b[1] = TimeBinaryVersion
    /\ Len(b) = TimeBinaryLen

\* the Time that UnmarshalBinary yields (the zone offset does not change
\* the instant)
UnmarshalBinary(b) == [sec |-> b[2] * 256 + b[3], nsec |-> b[4]]

\* ------------------------------------------------------------------------
\* crypto/hmac with sha1
\* ------------------------------------------------------------------------

\* sha1.Size
HmacSize == 20

RECURSIVE Zeros(_)
Zeros(n) == IF n <= 0 THEN <<>> ELSE <<0>> \o Zeros(n - 1)

\* HMAC taken as collision-free: an injective function of (key, message)
\* into byte strings, HmacSize long for every key and message of the model
Hmac(key, msg) ==
    LET body == <<Len(key), Len(msg)>> \o key \o msg
    IN  body \o Zeros(HmacSize - Len(body))

\* a comparison of the digests' lengths only
HmacEqualLen(a, b) == Len(a) = Len(b)

\* hmac.Equal
HmacEqual(a, b) == a = b

\* ------------------------------------------------------------------------
\* package sig
\* ------------------------------------------------------------------------

\* the expiry stamped without the timeout > 0 test
ExpiresAlways(t, timeout) == TimeAdd(TimeAt(t), timeout)

\* the expiry sig.New stamps: now + timeout when timeout > 0, else zero
Expires(t, timeout) ==
    IF timeout > 0 THEN TimeAdd(TimeAt(t), timeout) ELSE ZeroTime

\* sig.New signing the data alone, the expiry left out of the digest
SigNewDataOnly(data, secret, timeout, t) ==
    LET expiresB == MarshalBinary(Expires(t, timeout))
        sum == Hmac(secret, data)
    IN  B64Encode(data) \o <<Colon>> \o B64Encode(expiresB) \o <<Colon>>
        \o B64Encode(sum)

\* sig.New(data, secret, timeout) called at clock value t
SigNew(data, secret, timeout, t) ==
    LET expiresB == MarshalBinary(Expires(t, timeout))
        sum == Hmac(secret, data \o expiresB)
    IN  B64Encode(data) \o <<Colon>> \o B64Encode(expiresB) \o <<Colon>>
        \o B64Encode(sum)

\* sig.Extract(sig, secret) called at clock value t
Extract(sig, secret, t) ==
    LET i == IndexByte(sig, Colon)
    IN  IF i < 0 THEN Nil
        ELSE
        LET data == B64Decode(Prefix(sig, i))
            sig2 == Suffix(sig, i + 1)
            j == IndexByte(sig2, Colon)
        IN  IF data = Nil THEN Nil
            ELSE IF j < 0 THEN Nil
            ELSE
            LET expiresB == B64Decode(Prefix(sig2, j))
                sum == B64Decode(Suffix(sig2, j + 1))
            IN  IF expiresB = Nil THEN Nil
                ELSE IF ~UnmarshalOK(expiresB) THEN Nil
                ELSE IF /\ ~IsZero(UnmarshalBinary(expiresB))
                        /\ After(TimeAt(t), UnmarshalBinary(expiresB))
                     THEN Nil
                ELSE IF sum = Nil THEN Nil
                ELSE IF ~HmacEqual(Hmac(secret, data \o expiresB), sum) THEN Nil
                ELSE data

\* sig.Verify
Verify(sig, secret, t) == Extract(sig, secret, t) # Nil

\* ------------------------------------------------------------------------
\* package usertok
\* ------------------------------------------------------------------------

\* the lifetime usertok.New gives a token, 48*time.Hour, in clock ticks
UserTokTTL == 1

\* usertok.New putting the user bytes into the payload as they are
UserTokNewRaw(user, secret, shared, t) ==
    SigNew(user \o <<Colon>> \o B64Encode(shared), secret, UserTokTTL, t)

\* usertok.New signing without a timeout
UserTokNewForever(user, secret, shared, t) ==
    SigNew(B64Encode(user) \o <<Colon>> \o B64Encode(shared), secret, 0, t)

\* usertok.New(user, secret) called at clock value t, shared being the
\* bytes rand.Read delivered
UserTokNew(user, secret, shared, t) ==
    SigNew(B64Encode(user) \o <<Colon>> \o B64Encode(shared), secret,
           UserTokTTL, t)

\* ExtractUser after the signature check and the split: data is what
\* sig.Extract returned, i the place of its first ':'
DecodeUser(data, i) ==
    IF data = Nil THEN <<>>
    ELSE IF i < 0 THEN <<>>
    ELSE LET userB == B64Decode(Prefix(data, i))
         IN  IF userB = Nil THEN <<>> ELSE userB

\* ExtractUser after the signature check
SplitUser(data) == DecodeUser(data, IndexByte(data, Colon))

\* usertok.ExtractUser(userTok, secret) called at clock value t; the empty
\* string is <<>>
ExtractUser(userTok, secret, t) == SplitUser(Extract(userTok, secret, t))

\* ------------------------------------------------------------------------
\* package apitok: the token
\* ------------------------------------------------------------------------

\* json.Marshal(apiTokData{UUID, TS}): an opaque payload naming both
ApiTokData(uuid, t) == <<123, uuid, Colon, t, 125>>

\* apitok.New(secret) called at clock value t, uuid being what uuid.New()
\* delivered; the token is signed without a timeout
ApiTokNew(secret, uuid, t) == SigNew(ApiTokData(uuid, t), secret, 0, t)

\* ------------------------------------------------------------------------
\* package apitok: RateLimitMem, a map from key to keyval{val, tsMod}
\* ------------------------------------------------------------------------

\* the width of time.Duration and of a keyval's val (int64 in the program)
DurBits == 8

\* the largest Duration
MaxDuration == 2 ^ (DurBits - 1) - 1

\* two's-complement wrap of an integer to DurBits bits
Wrap(x) == ((x + 2 ^ (DurBits - 1)) % (2 ^ DurBits)) - 2 ^ (DurBits - 1)

\* the zero keyval, read for a key the map does not hold; tsMod 0 is the
\* zero time
ZeroKeyval == [val |-> 0, tsMod |-> 0]

\* m.m[key]
Lookup(m, key) == IF key \in DOMAIN m THEN m[key] ELSE ZeroKeyval

\* m.m[key] = kv
Store(m, key, kv) ==
    [k \in DOMAIN m \cup {key} |-> IF k = key THEN kv ELSE m[k]]

\* IncrByCeil without its ceiling
IncrByNoCeil(m, key, amount, max, t) ==
    LET sum == Lookup(m, key).val + amount
    IN  [val |-> sum, maxd |-> FALSE,
         m |-> Store(m, key, [val |-> sum, tsMod |-> t])]

\* IncrByCeil adding to the zero value instead of the key's value
IncrByCeilStale(m, key, amount, max, t) ==
    LET newAmount == IF amount > max THEN max ELSE amount
    IN  [val |-> newAmount, maxd |-> amount > max,
         m |-> Store(m, key, [val |-> newAmount, tsMod |-> t])]

\* RateLimitMem.IncrByCeil at clock value t: the new value and the new map
IncrByCeil(m, key, amount, max, t) ==
    LET sum == Wrap(Lookup(m, key).val + amount)
        newAmount == IF sum > max THEN max ELSE sum
    IN  [val |-> newAmount, maxd |-> sum > max,
         m |-> Store(m, key, [val |-> newAmount, tsMod |-> t])]

\* DecrBy stopping at zero
DecrByFloor(m, key, amount, t) ==
    LET diff == Lookup(m, key).val - amount
        newAmount == IF diff < 0 THEN 0 ELSE diff
    IN  [val |-> newAmount,
         m |-> Store(m, key, [val |-> newAmount, tsMod |-> t])]

\* RateLimitMem.DecrBy at clock value t
DecrBy(m, key, amount, t) ==
    LET newAmount == Wrap(Lookup(m, key).val - amount)
    IN  [val |-> newAmount,
         m |-> Store(m, key, [val |-> newAmount, tsMod |-> t])]

\* RateLimitMem.Get
Get(m, key) == Lookup(m, key).val

\* LastModified reporting the zero time for every key
LastModifiedZero(m, key) == 0

\* RateLimitMem.LastModified
LastModified(m, key) == Lookup(m, key).tsMod

\* ------------------------------------------------------------------------
\* package apitok: RateLimiter
\* ------------------------------------------------------------------------

\* NewRateLimiter(): the defaults (Capacity 30 s, Interval 5 s, PerInterval
\* 5 s) scaled to clock ticks: the bucket holds two intervals' worth
NewRateLimiter == [Capacity |-> 2, Interval |-> 1, PerInterval |-> 1]

\* time.Since taking the zero time for clock value 0
SinceNoZero(lm, t) == t - lm

\* time.Since(lm) at clock value t; the distance to the zero time
\* saturates at the largest Duration
Since(lm, t) == IF lm = 0 THEN MaxDuration ELSE t - lm

\* CanUseRaw stamping lastModified on a read that refills nothing
CanUseRawTouch(rl, m, identifier, t) ==
    LET since == Since(LastModified(m, identifier), t)
        toAdd == Wrap((since \div rl.Interval) * rl.PerInterval)
        incr == IncrByCeil(m, identifier, toAdd, rl.Capacity, t)
        timeLeft == IF toAdd > 0 THEN incr.val ELSE Get(m, identifier)
    IN  [res |-> IF timeLeft <= 0 THEN "RateLimited" ELSE "Success",
         m |-> IF toAdd > 0 THEN incr.m
               ELSE Store(m, identifier,
                          [val |-> Get(m, identifier), tsMod |-> t])]

\* CanUseRaw reading the stored value without refilling
CanUseRawNoRefill(rl, m, identifier, t) ==
    [res |-> IF Get(m, identifier) <= 0 THEN "RateLimited" ELSE "Success",
     m |-> m]

\* CanUseRaw letting a bucket holding exactly zero through
CanUseRawBelowZero(rl, m, identifier, t) ==
    LET since == Since(LastModified(m, identifier), t)
        toAdd == Wrap((since \div rl.Interval) * rl.PerInterval)
        incr == IncrByCeil(m, identifier, toAdd, rl.Capacity, t)
        timeLeft == IF toAdd > 0 THEN incr.val ELSE Get(m, identifier)
    IN  [res |-> IF timeLeft < 0 THEN "RateLimited" ELSE "Success",
         m |-> IF toAdd > 0 THEN incr.m ELSE m]

\* RateLimiter.CanUseRaw(identifier) of limiter rl at clock value t: the
\* result and the map it leaves
CanUseRaw(rl, m, identifier, t) ==
    LET since == Since(LastModified(m, identifier), t)
        toAdd == Wrap((since \div rl.Interval) * rl.PerInterval)
        incr == IncrByCeil(m, identifier, toAdd, rl.Capacity, t)
        timeLeft == IF toAdd > 0 THEN incr.val ELSE Get(m, identifier)
    IN  [res |-> IF timeLeft <= 0 THEN "RateLimited" ELSE "Success",
         m |-> IF toAdd > 0 THEN incr.m ELSE m]

\* CanUse reporting an empty bucket before it verifies the token
CanUseLimitFirst(rl, m, token, secret, t) ==
    IF CanUseRaw(rl, m, token, t).res = "RateLimited"
    THEN CanUseRaw(rl, m, token, t)
    ELSE IF ~Verify(token, secret, t) THEN [res |-> "TokenInvalid", m |-> m]
    ELSE CanUseRaw(rl, m, token, t)

\* CanUse consulting the bucket before it verifies the token
CanUseRefillFirst(rl, m, token, secret, t) ==
    IF ~Verify(token, secret, t)
    THEN [res |-> "TokenInvalid", m |-> CanUseRaw(rl, m, token, t).m]
    ELSE CanUseRaw(rl, m, token, t)

\* RateLimiter.CanUse(token, secret) at clock value t
CanUse(rl, m, token, secret, t) ==
    IF ~Verify(token, secret, t) THEN [res |-> "TokenInvalid", m |-> m]
    ELSE CanUseRaw(rl, m, token, t)

\* RateLimiter.Use(identifier, toRemove) at clock value t: the map it leaves
Use(m, identifier, toRemove, t) == DecrBy(m, identifier, toRemove, t).m

\* ------------------------------------------------------------------------
\* package auth: flags, errors
\* ------------------------------------------------------------------------

\* HandlerFlag values: Default = 0, then 1 << iota from iota = 1
Default == 0
IPRateLimited == 2
NoAPITokenRequired == 4
RequireUserAuthGet == 8
RequireUserAuthPost == 16
RequireUserAuthPut == 32
RequireUserAuthHead == 64
RequireUserAuthDelete == 128

RequireUserAuthAlways ==
    RequireUserAuthGet + RequireUserAuthPost + RequireUserAuthPut
    + RequireUserAuthHead + RequireUserAuthDelete

\* a comparison of the whole flag word with f
HasFlagExact(flags, f) == flags = f

\* flags & f != 0, f a single bit
HasFlag(flags, f) == (flags \div f) % 2 = 1

\* API.Secret when it is not set
NilSecret == Nil

\* strings.LastIndex(s, ":"), 0-based, -1 when there is none
RECURSIVE LastIndexFrom(_, _, _)
LastIndexFrom(s, c, i) ==
    IF i < 1 THEN -1
    ELSE IF s[i] = c THEN i - 1
    ELSE LastIndexFrom(s, c, i - 1)

LastIndex(s, c) == LastIndexFrom(s, c, Len(s))

\* requiresUserAuth without its test for RequireUserAuthAlways
RequiresUserAuthByMethod(flags, method) ==
    IF method = "GET" THEN HasFlag(flags, RequireUserAuthGet)
    ELSE IF method = "POST" THEN HasFlag(flags, RequireUserAuthPost)
    ELSE IF method = "PUT" THEN HasFlag(flags, RequireUserAuthPut)
    ELSE IF method = "HEAD" THEN HasFlag(flags, RequireUserAuthHead)
    ELSE IF method = "DELETE" THEN HasFlag(flags, RequireUserAuthDelete)
    ELSE FALSE

\* authHandler.requiresUserAuth
RequiresUserAuth(flags, method) ==
    IF \A f \in {RequireUserAuthGet, RequireUserAuthPost, RequireUserAuthPut,
                  RequireUserAuthHead, RequireUserAuthDelete} :
           HasFlag(flags, f)
    THEN TRUE
    ELSE IF method = "GET" THEN HasFlag(flags, RequireUserAuthGet)
    ELSE IF method = "POST" THEN HasFlag(flags, RequireUserAuthPost)
    ELSE IF method = "PUT" THEN HasFlag(flags, RequireUserAuthPut)
    ELSE IF method = "HEAD" THEN HasFlag(flags, RequireUserAuthHead)
    ELSE IF method = "DELETE" THEN HasFlag(flags, RequireUserAuthDelete)
    ELSE FALSE

\* authdUser without its test of the secret
AuthdUserNoSecretTest(secret, userTok, t) ==
    IF userTok = <<>> THEN [user |-> <<>>, err |-> "ErrUserTokenMissing"]
    ELSE IF ExtractUser(userTok, secret, t) = <<>>
         THEN [user |-> <<>>, err |-> "ErrUserTokenInvalid"]
    ELSE [user |-> ExtractUser(userTok, secret, t), err |-> ""]

\* authHandler.authdUser: the user and the error ("" for nil)
AuthdUser(secret, userTok, t) ==
    IF secret = NilSecret THEN [user |-> <<>>, err |-> "ErrSecretNotSet"]
    ELSE IF userTok = <<>> THEN [user |-> <<>>, err |-> "ErrUserTokenMissing"]
    ELSE IF ExtractUser(userTok, secret, t) = <<>>
         THEN [user |-> <<>>, err |-> "ErrUserTokenInvalid"]
    ELSE [user |-> ExtractUser(userTok, secret, t), err |-> ""]

\* authHandler.ServeHTTP up to the call of the wrapped handler, at clock
\* value t over the map m: the error written ("" when the request goes
\* on), the local token, the key the limiter was asked about (Nil when it
\* was not asked), the user found and the map left behind
GateQuota(rl, m, secret, r, t) ==
    IF HasFlag(r.flags, IPRateLimited) THEN
        LET remoteIP == Prefix(r.remoteAddr, LastIndex(r.remoteAddr, Colon))
            cu == CanUseRaw(rl, m, remoteIP, t)
        IN  IF cu.res = "Success"
            THEN [err |-> "", token |-> r.remoteAddr, asked |-> remoteIP,
                  m |-> cu.m]
            ELSE IF cu.res = "RateLimited"
            THEN [err |-> "ErrIPAddrRateLimited", token |-> <<>>,
                  asked |-> remoteIP, m |-> cu.m]
            ELSE [err |-> "ErrUnknownProblem", token |-> <<>>,
                  asked |-> remoteIP, m |-> cu.m]
    ELSE IF ~HasFlag(r.flags, NoAPITokenRequired) /\ secret # NilSecret THEN
        IF r.apiTok = <<>>
        THEN [err |-> "ErrAPITokenMissing", token |-> <<>>, asked |-> Nil,
              m |-> m]
        ELSE
        LET cu == CanUse(rl, m, r.apiTok, secret, t)
        IN  IF cu.res = "Success"
            THEN [err |-> "", token |-> r.apiTok, asked |-> r.apiTok,
                  m |-> cu.m]
            ELSE IF cu.res = "TokenInvalid"
            THEN [err |-> "ErrAPITokenInvalid", token |-> <<>>,
                  asked |-> r.apiTok, m |-> cu.m]
            ELSE IF cu.res = "RateLimited"
            THEN [err |-> "ErrAPITokenRateLimited", token |-> <<>>,
                  asked |-> r.apiTok, m |-> cu.m]
            ELSE [err |-> "ErrUnknownProblem", token |-> <<>>,
                  asked |-> r.apiTok, m |-> cu.m]
    ELSE [err |-> "", token |-> <<>>, asked |-> Nil, m |-> m]

\* the user-identity step given authdUser's answer au: the request is
\* rejected when user authentication is required and au holds an error
UserStep(required, au) ==
    IF required /\ au.err # ""
    THEN [err |-> au.err, user |-> <<>>]
    ELSE [err |-> "", user |-> au.user]

\* the user-identity step rejecting on any authdUser error, required or not
GateUserAlways(secret, r, t) ==
    UserStep(TRUE, AuthdUser(secret, r.userTok, t))

\* the user-identity step that follows a passed quota step
GateUser(secret, r, t) ==
    UserStep(RequiresUserAuth(r.flags, r.method),
             AuthdUser(secret, r.userTok, t))

\* ServeHTTP going on to the wrapped handler after an error response
GateStageFallThrough(err) == "handling"

\* every error response of ServeHTTP is followed by a return: a request
\* with an error is done, one without is handed to the wrapped handler
GateStage(err) == IF err # "" THEN "done" ELSE "handling"

\* values.Add("_asUser", user) on the values of that parameter the request
\* came with, done when a user was found
AddAsUser(values, user) ==
    IF user # <<>> THEN Append(values, user) ELSE values

\* Request.FormValue("_asUser"), the way handlers read the parameter: the
\* first of its values, the empty string when there is none
FormValue(values) == IF values = <<>> THEN <<>> ELSE values[1]

\* ------------------------------------------------------------------------
\* Package room: rooms as redis sorted sets, members scored by the time of
\* their last CheckIn
\* ------------------------------------------------------------------------

\* Opts.Prefix, left empty as in the tests
RoomPrefix == <<>>

\* System.Key(room): "room:" + Prefix + ":{" + room + "}"
RoomKey(room) ==
    <<114, 111, 111, 109, Colon>> \o RoomPrefix \o <<Colon, 123>> \o room
        \o <<125>>

\* the keys SCAN returns for the pattern Key("*"): those that begin with
\* "room:" + Prefix + ":{" and end with "}"
MatchesRoomKeys(key) ==
    LET head == <<114, 111, 111, 109, Colon>> \o RoomPrefix \o <<Colon, 123>>
    IN /\ Len(key) >= Len(head) + 1
       /\ SubSeq(key, 1, Len(head)) = head
       /\ key[Len(key)] = 125

\* the distance between neighbouring scores: redis keeps a score as a
\* 64-bit float, and a UnixNano of this century lies between 2^60 and 2^61,
\* where floats are 2^8 ns apart; the clock tick of the model is half that
ScoreUlp == 2

\* the score redis keeps for the integer n sent as a decimal string: the
\* nearest float, a tie going to the even one
ToScore(n) ==
    LET q == n \div ScoreUlp
        r == n % ScoreUlp
    IN IF 2 * r < ScoreUlp THEN q * ScoreUlp
       ELSE IF 2 * r > ScoreUlp THEN (q + 1) * ScoreUlp
       ELSE IF q % 2 = 0 THEN q * ScoreUlp
       ELSE (q + 1) * ScoreUlp

\* ZADD without the removal of the member's old entry
ZAddTwice(z, score, id) == z \cup {[id |-> id, score |-> score]}

\* ZADD key score id on the sorted set z, a set of entries [id, score]: the
\* member gets the new score, whether it was in the set or not
ZAdd(z, score, id) ==
    {e \in z : e.id # id} \cup {[id |-> id, score |-> score]}

\* ZREM key id
ZRem(z, id) == {e \in z : e.id # id}

\* ZREMRANGEBYSCORE key -inf max: the entries of score <= max go
ZRemRangeByScore(z, max) == {e \in z : e.score > max}

\* byte strings in lexicographic order
RECURSIVE BytesLess(_, _)
BytesLess(a, b) ==
    IF b = <<>> THEN FALSE
    ELSE IF a = <<>> THEN TRUE
    ELSE IF a[1] # b[1] THEN a[1] < b[1]
    ELSE BytesLess(Tail(a), Tail(b))

\* ZRANGE key 0 -1: the members by score, and by name where scores are equal
RECURSIVE ZRange(_)
ZRange(z) ==
    IF z = {} THEN <<>>
    ELSE LET first == CHOOSE e \in z : \A f \in z \ {e} :
                          \/ e.score < f.score
                          \/ e.score = f.score /\ BytesLess(e.id, f.id)
                          \/ e.score = f.score /\ e.id = f.id
         IN <<first.id>> \o ZRange(z \ {first})

\* the sorted set at key, empty when redis has no such key
ZSetAt(db, key) == IF key \in DOMAIN db THEN db[key] ELSE {}

\* redis keeps no empty sorted set: the key goes with its last member
PutZSet(db, key, z) ==
    IF z = {} THEN [k \in DOMAIN db \ {key} |-> db[k]]
    ELSE [k \in DOMAIN db \cup {key} |-> IF k = key THEN z ELSE db[k]]

\* System.CheckIn(room, id) at clock value t
CheckIn(db, room, id, t) ==
    PutZSet(db, RoomKey(room), ZAdd(ZSetAt(db, RoomKey(room)), ToScore(t), id))

\* System.CheckOut(room, id)
CheckOut(db, room, id) ==
    PutZSet(db, RoomKey(room), ZRem(ZSetAt(db, RoomKey(room)), id))

\* System.Members(room)
Members(db, room) == ZRange(ZSetAt(db, RoomKey(room)))

\* System.Cardinality(room): ZCARD
RoomCardinality(db, room) == Cardinality(ZSetAt(db, RoomKey(room)))

\* Opts.CheckInPeriod, in clock ticks (30 s by default, 1 s in the tests)
CheckInPeriod == 4

\* removeIdle's expire, from the clock value t at which it starts
ExpireBefore(t) == t - CheckInPeriod

\* removeIdle's command on one key the scan delivered
RemoveIdleAt(db, key, expire) ==
    PutZSet(db, key, ZRemRangeByScore(ZSetAt(db, key), ToScore(expire)))

\* ------------------------------------------------------------------------
\* Package user: users as redis hashes, fields by their redis key
\* ------------------------------------------------------------------------

\* FieldFlag
Public == 1

Private == 2

Hidden == 4

Editable == 8

\* a & b != 0 for flag words
FlagsMeet(a, b) ==
    \E bit \in {Public, Private, Hidden, Editable} :
        HasFlag(a, bit) /\ HasFlag(b, bit)

\* System.fields as New leaves it
Fields ==
    [Name |-> [Key |-> "_n", Flags |-> Public],
     TSCreated |-> [Key |-> "_t", Flags |-> Public],
     Email |-> [Key |-> "_e", Flags |-> Private + Editable],
     TSModified |-> [Key |-> "_tm", Flags |-> Private],
     Disabled |-> [Key |-> "_d", Flags |-> Private],
     PasswordHash |-> [Key |-> "_p", Flags |-> Hidden]]

\* s.fields[name]: the zero Field for a name the map does not have
FieldOf(name) ==
    IF name \in DOMAIN Fields THEN Fields[name]
    ELSE [Key |-> "", Flags |-> 0]

\* System.BannedUsernames as New leaves it: "new-user" and "root"
BannedUsernames ==
    {<<110, 101, 119, 45, 117, 115, 101, 114>>, <<114, 111, 111, 116>>}

\* System.Key(user): "user:{" + user + "}"
UserHashKey(user) == <<117, 115, 101, 114, Colon, 123>> \o user \o <<125>>

\* marshalTime: the clock value as text, "T" and a digit
MarshalTime(t) == <<84, 48 + t>>

\* the digit of a value 0..15, in lower case
HexDigit(v) == IF v < 10 THEN 48 + v ELSE 87 + v

\* the value of a digit, -1 for a byte that is none; upper case is accepted
HexValue(c) ==
    IF c >= 48 /\ c <= 57 THEN c - 48
    ELSE IF c >= 97 /\ c <= 102 THEN c - 87
    ELSE IF c >= 65 /\ c <= 70 THEN c - 55
    ELSE -1

\* hex.EncodeToString
RECURSIVE HexEncode(_)
HexEncode(b) ==
    IF b = <<>> THEN <<>>
    ELSE <<HexDigit(b[1] \div 16), HexDigit(b[1] % 16)>> \o HexEncode(Tail(b))

\* hex.DecodeString: Nil for an odd length or a byte that is no digit
RECURSIVE HexDecode(_)
HexDecode(s) ==
    IF s = <<>> THEN <<>>
    ELSE IF Len(s) = 1 \/ HexValue(s[1]) < 0 \/ HexValue(s[2]) < 0 THEN Nil
    ELSE LET rest == HexDecode(Tail(Tail(s)))
         IN IF rest = Nil THEN Nil
            ELSE <<16 * HexValue(s[1]) + HexValue(s[2])>> \o rest

\* bcrypt.GenerateFromPassword, as a function that keeps passwords apart:
\* "$" and the password
Bcrypt(password) == <<36>> \o password

\* bcrypt.CompareHashAndPassword(hash, password) == nil
BcryptMatches(hash, password) == hash = Bcrypt(password)

\* System.generatePassword
GeneratePassword(password) == HexEncode(Bcrypt(password))

\* the hash at key, empty when redis has no such key
HGetAll(db, key) ==
    IF key \in DOMAIN db THEN db[key] ELSE [f \in {} |-> <<>>]

\* HGET key field: a value, or nil
HGet(db, key, field) ==
    IF field \in DOMAIN HGetAll(db, key) THEN HGetAll(db, key)[field]
    ELSE Nil

\* HMSET key field value ...: pairs is a sequence of <<field, value>>, a
\* later pair of the same field wins
RECURSIVE HMSet(_, _, _)
HMSet(db, key, pairs) ==
    IF pairs = <<>> THEN db
    ELSE LET h == HGetAll(db, key)
             f == pairs[1][1]
             h2 == [x \in DOMAIN h \cup {f} |->
                      IF x = f THEN pairs[1][2] ELSE h[x]]
             db2 == [k \in DOMAIN db \cup {key} |->
                       IF k = key THEN h2 ELSE db[k]]
         IN HMSet(db2, key, Tail(pairs))

\* HDEL key field ...: redis keeps no empty hash
HDel(db, key, fields) ==
    LET h == HGetAll(db, key)
        h2 == [x \in DOMAIN h \ fields |-> h[x]]
    IN IF DOMAIN h2 = {} THEN [k \in DOMAIN db \ {key} |-> db[k]]
       ELSE [k \in DOMAIN db |-> IF k = key THEN h2 ELSE db[k]]

\* the script hmsetnx: HMSET when the hash has no field at all
Hmsetnx(db, key, pairs) ==
    IF key \in DOMAIN db THEN [i |-> 0, db |-> db]
    ELSE [i |-> 1, db |-> HMSet(db, key, pairs)]

\* hmsetxxnx without its second test
HmsetxxOnly(db, key, xx, nx, pairs) ==
    IF HGet(db, key, xx) = Nil THEN [i |-> 0, db |-> db]
    ELSE [i |-> 1, db |-> HMSet(db, key, pairs)]

\* the script hmsetxxnx: HMSET when the field xx is set and the field nx is
\* not
Hmsetxxnx(db, key, xx, nx, pairs) ==
    IF HGet(db, key, xx) = Nil THEN [i |-> 0, db |-> db]
    ELSE IF HGet(db, key, nx) # Nil THEN [i |-> -1, db |-> db]
    ELSE [i |-> 1, db |-> HMSet(db, key, pairs)]

\* System.appendKeyvalsToArgs at clock value t: TSModified first, then each
\* field under its redis key; keyvals is a sequence of <<name, value>>
RECURSIVE FieldPairs(_)
FieldPairs(keyvals) ==
    IF keyvals = <<>> THEN [err |-> "", pairs |-> <<>>]
    ELSE IF FieldOf(keyvals[1][1]).Key = ""
    THEN [err |-> "ErrFieldUnknown", pairs |-> <<>>]
    ELSE LET rest == FieldPairs(Tail(keyvals))
         IN IF rest.err # "" THEN rest
            ELSE [err |-> "",
                  pairs |-> <<<<FieldOf(keyvals[1][1]).Key, keyvals[1][2]>>>>
                                \o rest.pairs]

AppendKeyvalsToArgs(keyvals, t) ==
    LET r == FieldPairs(keyvals)
    IN IF r.err # "" THEN r
       ELSE [err |-> "",
             pairs |-> <<<<Fields.TSModified.Key, MarshalTime(t)>>>>
                           \o r.pairs]

\* System.Create up to its script: the arguments it has built at clock value
\* t, or the error it returns before
CreateArgs(user, email, password, t) ==
    IF user \in BannedUsernames
    THEN [err |-> "ErrInvalidUsername", pairs |-> <<>>]
    ELSE AppendKeyvalsToArgs(<<<<"Name", user>>,
                               <<"PasswordHash", GeneratePassword(password)>>,
                               <<"Email", email>>,
                               <<"TSCreated", MarshalTime(t)>>>>, t)

\* System.Create from its script on: hmsetnx on the user's key
CreateEval(db, user, pairs) ==
    LET r == Hmsetnx(db, UserHashKey(user), pairs)
    IN [err |-> IF r.i = 0 THEN "ErrUserExists" ELSE "", db |-> r.db]

\* System.set
SetFields(db, user, keyvals, t) ==
    LET a == AppendKeyvalsToArgs(keyvals, t)
    IN IF a.err # "" THEN [err |-> a.err, db |-> db]
       ELSE [err |-> "", db |-> HMSet(db, UserHashKey(user), a.pairs)]

\* System.setExists
SetExists(db, user, keyvals, t) ==
    LET a == AppendKeyvalsToArgs(keyvals, t)
    IN IF a.err # "" THEN [err |-> a.err, db |-> db]
       ELSE LET r == Hmsetxxnx(db, UserHashKey(user), Fields.Name.Key,
                               Fields.Disabled.Key, a.pairs)
            IN [err |-> IF r.i = 0 THEN "ErrNotFound"
                        ELSE IF r.i = -1 THEN "ErrDisabled" ELSE "",
                db |-> r.db]

\* System.unset
Unset(db, user, names) ==
    IF names = {} THEN [err |-> "", db |-> db]
    ELSE IF \E f \in names : FieldOf(f).Key = ""
    THEN [err |-> "ErrFieldUnknown", db |-> db]
    ELSE [err |-> "",
          db |-> HDel(db, UserHashKey(user), {FieldOf(f).Key : f \in names})]

\* System.ChangePassword
ChangePassword(db, user, newPassword, t) ==
    SetExists(db, user, <<<<"PasswordHash", GeneratePassword(newPassword)>>>>,
              t)

\* System.Get: the fields that are Public or pass the filters, "" for one
\* the hash lacks
UserGet(db, user, filters) ==
    LET m == HGetAll(db, UserHashKey(user))
    IN IF DOMAIN m = {} THEN [err |-> "ErrNotFound", info |-> <<>>]
       ELSE [err |-> "",
             info |-> [f \in {x \in DOMAIN Fields :
                                \/ Fields[x].Flags = Public
                                \/ FlagsMeet(Fields[x].Flags, filters)} |->
                         IF Fields[f].Key \in DOMAIN m THEN m[Fields[f].Key]
                         ELSE <<>>]]

\* System.Authenticate
Authenticate(db, user, password) ==
    LET u == UserGet(db, user, Hidden + Private)
    IN IF u.err # "" THEN u.err
       ELSE IF u.info.Disabled # <<>> THEN "ErrDisabled"
       ELSE IF HexDecode(u.info.PasswordHash) = Nil THEN "ErrHex"
       ELSE IF ~BcryptMatches(HexDecode(u.info.PasswordHash), password)
       THEN "ErrBadAuth"
       ELSE ""

\* System.Disable at clock value t
Disable(db, user, t) == SetFields(db, user, <<<<"Disabled", <<49>>>>>>, t)

\* System.Enable
Enable(db, user) == Unset(db, user, {"Disabled"})

\* System.Set for an Info of at most one field, a sequence of
\* <<name, value>>
SetInfo(db, user, info, t) ==
    IF \E i \in 1..Len(info) : FieldOf(info[i][1]).Flags = 0
    THEN [err |-> "ErrFieldUnknown", db |-> db]
    ELSE IF \E i \in 1..Len(info) :
              ~HasFlag(FieldOf(info[i][1]).Flags, Editable)
    THEN [err |-> "ErrFieldUneditable", db |-> db]
    ELSE SetExists(db, user, info, t)

\* ------------------------------------------------------------------------
\* State
\* ------------------------------------------------------------------------

VARIABLES
    now,        \* the wall clock, time.Now(), in ticks
    sigIssued,  \* the call of sig.New under test: its arguments and result
    sigTok,     \* the string a client presents to sig.Extract
    sigSeg,     \* what the client did to the issued token before presenting
    sigOut,     \* the last call of sig.Extract: its secret and result
    sigRefused, \* history: Extract has refused the token as issued, under
                \* its own secret
    utIssued,   \* the call of usertok.New under test
    utTok,      \* the string a client presents to usertok.ExtractUser
    utSeg,      \* what the client did to the issued user token
    utOut,      \* the last call of usertok.ExtractUser
    secretCfg,  \* API.Secret, NilSecret when it is not set
    store,      \* RateLimitMem.m of API.RateLimiter.Backend
    wallet,     \* what NewAPIToken and NewUserToken have handed the client
    gate,       \* the request passing through authHandler.ServeHTTP
    lim,        \* the RateLimiter under test: its fields and the record of
                \* the calls made on it
    conc,       \* goroutines calling one RateLimitMem at the same time: where
                \* each stands, and the record of what was done
    bc,         \* the broadcast System: the redis keys it keeps, the callers
                \* of StartBroadcast, and the record of what was done
    rua,        \* the last call of requiresUserAuth: flags, method, result
    rm,         \* the room System: the sorted sets redis keeps, removeIdle's
                \* position, and the record of what was done
    us          \* the user System: the hashes redis keeps, the callers of
                \* Create, and the record of what was done

sigVars == <<sigIssued, sigTok, sigSeg, sigOut, sigRefused>>

utVars == <<utIssued, utTok, utSeg, utOut>>

gateVars == <<secretCfg, store, wallet, gate>>

limVars == <<lim>>

concVars == <<conc>>

bcVars == <<bc>>

ruaVars == <<rua>>

rmVars == <<rm>>

usVars == <<us>>

vars == <<now, sigVars, utVars, gateVars, limVars, concVars, bcVars, ruaVars,
          rmVars, usVars>>

\* ------------------------------------------------------------------------
\* Inputs of the sig driver
\* ------------------------------------------------------------------------

SecretA == <<97>>
SecretB == <<98, 0>>
Secrets == {SecretA, SecretB}

\* payloads: empty, one byte (':'), two bytes
Payloads == {<<>>, <<Colon>>, <<1, 255>>}

\* timeouts: negative, zero, positive
TTLs == {-1} \cup (0 .. MaxTTL)

NoToken ==
    [live |-> FALSE, data |-> <<>>, secret |-> <<>>, timeout |-> 0, at |-> 0,
     tok |-> <<>>]

NoOut == [done |-> FALSE, secret |-> <<>>, res |-> Nil]

\* c with bit b flipped
FlipBit(c, b) ==
    LET w == 2 ^ b
    IN  IF (c \div w) % 2 = 1 THEN c - w ELSE c + w

\* characters a client inserts: a newline, an alphabet character
InsertChars == {LF, 65}

\* the three segments of an issued token, as 1-based [lo, hi] positions
SegBounds(tok, seg) ==
    LET i == IndexByte(tok, Colon)
        j == i + 1 + IndexByte(Suffix(tok, i + 1), Colon)
    IN  IF seg = "data" THEN <<1, i>>
        ELSE IF seg = "expires" THEN <<i + 2, j>>
        ELSE <<j + 2, Len(tok)>>

Segments == {"data", "expires", "sum"}

\* every string that differs from tok by one edit inside segment seg: one
\* bit of one character flipped, one character inserted, one deleted
Tampered(tok, seg) ==
    LET lo == SegBounds(tok, seg)[1]
        hi == SegBounds(tok, seg)[2]
    IN  {[tok EXCEPT ![k] = FlipBit(tok[k], b)] : k \in lo .. hi, b \in 0 .. 7}
        \cup {SubSeq(tok, 1, k - 1) \o <<c>> \o SubSeq(tok, k, Len(tok)) :
                k \in lo .. (hi + 1), c \in InsertChars}
        \cup {SubSeq(tok, 1, k - 1) \o SubSeq(tok, k + 1, Len(tok)) :
                k \in lo .. hi}

\* expiry bytes Time.UnmarshalBinary refuses: none, unknown version, short,
\* long
BadExpiries ==
    {<<>>, <<2, 0, 1, 0, 255, 255>>, <<TimeBinaryVersion, 0, 1>>,
     <<TimeBinaryVersion, 0, 1, 0, 255, 255, 0>>}

\* a token assembled by someone who holds the secret, around any expiry
\* bytes
Assemble(data, expiresB, secret) ==
    B64Encode(data) \o <<Colon>> \o B64Encode(expiresB) \o <<Colon>>
    \o B64Encode(Hmac(secret, data \o expiresB))

\* strings that are not three segments: a segment dropped, all delimiters
\* dropped, a fourth segment, a blank in a segment
Mangled(tok) ==
    LET i == IndexByte(tok, Colon)
        j == i + 1 + IndexByte(Suffix(tok, i + 1), Colon)
    IN  {Prefix(tok, j), Prefix(tok, i), <<>>, tok \o <<Colon>>,
         tok \o <<Colon, 65, 65, 65, 65>>, <<Colon>> \o tok,
         [tok EXCEPT ![Len(tok)] = 32], [tok EXCEPT ![i + 2] = 32]}

\* user names: empty, ':', a name with ':' and a zero byte, a high byte
Users == {<<>>, <<Colon>>, <<109, Colon, 0>>, <<255>>}

\* what rand.Read may deliver
Nonces == {<<0>>, <<255>>}

NoUserToken ==
    [live |-> FALSE, user |-> <<>>, secret |-> <<>>, at |-> 0, tok |-> <<>>,
     used |-> FALSE]

NoUserOut == [done |-> FALSE, secret |-> <<>>, user |-> <<>>]

\* ------------------------------------------------------------------------
\* Inputs of the gate
\* ------------------------------------------------------------------------

EmptyMap == [k \in {} |-> ZeroKeyval]

EmptyWallet ==
    [apiCalled |-> FALSE, apiTok |-> <<>>, userCalled |-> FALSE,
     userTok |-> <<>>, user |-> <<>>]

NoReq ==
    [flags |-> Default, method |-> "", remoteAddr |-> <<>>, apiTok |-> <<>>,
     userTok |-> <<>>, asUser |-> <<>>]

IdleGate ==
    [pc |-> "idle", req |-> NoReq, at |-> 0, err |-> "", token |-> <<>>,
     asked |-> Nil, userChecked |-> FALSE, user |-> <<>>, seen |-> <<>>,
     handled |-> FALSE, charged |-> Nil, before |-> EmptyMap, served |-> 0]

\* the policies endpoints are wrapped with
GateFlags ==
    {Default, IPRateLimited, NoAPITokenRequired, RequireUserAuthPost,
     NoAPITokenRequired + RequireUserAuthPost, RequireUserAuthAlways,
     IPRateLimited + RequireUserAuthGet}

Methods == {"GET", "POST"}

\* "1:7": address 1, port 7
RemoteAddrs == {<<49, Colon, 55>>}

\* the name NewUserToken is asked for: "m"
GateUsers == {<<109>>}

\* "blah", a header value that is no token
Garbage == <<98, 108, 97, 104>>

\* header values a client can send: none, garbage, the token the server
\* handed out; for the user token also one signed with a secret that is
\* not the server's
ApiHeaders(w) == {<<>>, Garbage, w.apiTok}

UserHeaders(w) ==
    {<<>>, w.userTok, UserTokNew(<<109>>, SecretB, <<0>>, 1)}

\* the values of the _asUser parameter a client puts into its own request:
\* none, or the name "v" of somebody else
AsUserParams == {<<>>, <<<<118>>>>}

Requests(w) ==
    [flags : GateFlags, method : Methods, remoteAddr : RemoteAddrs,
     apiTok : ApiHeaders(w), userTok : UserHeaders(w), asUser : AsUserParams]

\* ------------------------------------------------------------------------
\* Inputs of the limiter driver
\* ------------------------------------------------------------------------

\* the largest clock value the limiter driver sleeps to
LimMaxTime == 4

\* the largest amount handed to Use
MaxCharge == 2

\* the driver stops charging a bucket that owes this much
MaxDebt == 2

\* the limiter of TestRateLimiter: Capacity 5 s, Interval 1 s, PerInterval
\* 1 s, one second being one clock tick
TestLimiter == [Capacity |-> 5, Interval |-> 1, PerInterval |-> 1]

\* a limiter whose Interval is two ticks
SlowLimiter == [Capacity |-> 3, Interval |-> 2, PerInterval |-> 1]

\* a limiter that refills two ticks of budget per tick
FastLimiter == [Capacity |-> 1, Interval |-> 1, PerInterval |-> 2]

LimiterCfgs == {TestLimiter, SlowLimiter, FastLimiter}

\* token := New(secret)
LimToken == ApiTokNew(SecretA, 117, 1)

\* an identifier handed to CanUseRaw: the address "1"
LimAddr == <<49>>

NoCall ==
    [op |-> "none", key |-> <<>>, arg |-> 0, res |-> "", before |-> ZeroKeyval,
     m |-> EmptyMap, at |-> 0]

NoDebt == [live |-> FALSE, owed |-> 0, credited |-> 0]

NoLimiter ==
    [set |-> FALSE, cfg |-> TestLimiter, last |-> NoCall, script |-> 0,
     debt |-> NoDebt]

\* the calls of TestRateLimiter on its token, in order: five times CanUse
\* then Use of one second, CanUse, a sleep of one second, CanUse, Use of
\* one second, CanUse
ScriptCall(i) ==
    IF i \in {1, 3, 5, 7, 9, 11, 13, 15} THEN "CanUse"
    ELSE IF i \in {2, 4, 6, 8, 10, 14} THEN "Use1"
    ELSE IF i = 12 THEN "Sleep"
    ELSE "end"

\* how far the calls made so far follow the script: p calls matched, and
\* -1 once a call departed from it
ScriptStep(p, call) ==
    IF p >= 0 /\ ScriptCall(p + 1) = call THEN p + 1 ELSE -1

\* the refill due to a bucket kv at clock value t under limiter cfg: whole
\* Intervals since lastModified, times PerInterval, in Duration arithmetic
Due(cfg, kv, t) ==
    LET elapsed == IF kv.tsMod = 0 THEN MaxDuration ELSE t - kv.tsMod
    IN  Wrap((elapsed \div cfg.Interval) * cfg.PerInterval)

\* ------------------------------------------------------------------------
\* package broadcast: the redis keys it uses. A key maps to its value and the
\* clock value at which it expires; an expired key reads as absent.
\* ------------------------------------------------------------------------

\* the reply to GET of a key that is not there
RedisNil == Nil

\* GET key at clock value t
RedisGet(db, key, t) ==
    IF key \in DOMAIN db /\ t < db[key].exp THEN db[key].val ELSE RedisNil

\* SET key val EX secs without NX: the key is overwritten
SetEx(db, key, val, secs, t) ==
    [set |-> TRUE, db |-> Store(db, key, [val |-> val, exp |-> t + secs])]

\* SET key val EX secs NX at clock value t
SetExNx(db, key, val, secs, t) ==
    IF RedisGet(db, key, t) = RedisNil
    THEN [set |-> TRUE, db |-> Store(db, key, [val |-> val, exp |-> t + secs])]
    ELSE [set |-> FALSE, db |-> db]

\* the script expireEqual: EXPIRE key secs when GET key = val
ExpireEqual(db, key, secs, val, t) ==
    IF RedisGet(db, key, t) = val
    THEN [i |-> 1, db |-> [db EXCEPT ![key].exp = t + secs]]
    ELSE [i |-> 0, db |-> db]

\* the script delEqual: DEL key when GET key = val
DelEqual(db, key, val, t) ==
    IF RedisGet(db, key, t) = val
    THEN [i |-> 1, db |-> [k \in DOMAIN db \ {key} |-> db[k]]]
    ELSE [i |-> 0, db |-> db]

\* System.AlivenessPeriod, in clock ticks (30 s by default, 1 s in the tests)
AlivenessPeriod == 2

\* System.userKey, the constant text before the user cut to ":{"
UserKey(user) == <<Colon, 123>> \o user \o <<125>>

\* System.NewID(user) when rand.Read delivers b: the id
NewID(user, b) == B64Encode(user \o <<Colon>> \o B64Encode(b))

\* ID.User: idStr[:i], or "" when decoding failed or there is no ":"
IDUser(id) ==
    LET idDec == B64Decode(id)
        i == LastIndex(idDec, Colon)
    IN  IF idDec = Nil THEN <<>>
        ELSE IF i < 0 THEN <<>>
        ELSE Prefix(idDec, i)

\* the rest of StartBroadcast once NewID gave id: SET ukey id EX period NX
StartBroadcast(db, user, id, t) ==
    LET r == SetExNx(db, UserKey(user), id, AlivenessPeriod, t)
    IN  [id |-> IF r.set THEN id ELSE <<>>,
         err |-> IF r.set THEN "" ELSE "ErrUserIsBroadcasting",
         db |-> r.db]

\* System.StillAlive(id) at clock value t
StillAlive(db, id, t) ==
    LET user == IDUser(id)
        r == ExpireEqual(db, UserKey(user), AlivenessPeriod, id, t)
    IN  IF user = <<>> THEN [err |-> "errInvalidID", db |-> db]
        ELSE [err |-> IF r.i = 0 THEN "errBroadcastEnded" ELSE "", db |-> r.db]

\* System.EndBroadcast(id) at clock value t
EndBroadcast(db, id, t) ==
    LET user == IDUser(id)
        r == DelEqual(db, UserKey(user), id, t)
    IN  IF user = <<>> THEN [err |-> "errInvalidID", db |-> db]
        ELSE [err |-> IF r.i = 0 THEN "errBroadcastEnded" ELSE "", db |-> r.db]

\* System.GetBroadcastID(user) at clock value t
GetBroadcastID(db, user, t) ==
    LET v == RedisGet(db, UserKey(user), t)
    IN  IF v = RedisNil THEN [id |-> <<>>, err |-> ""]
        ELSE IF IDUser(v) # user THEN [id |-> <<>>, err |-> "errInvalidID"]
        ELSE [id |-> v, err |-> ""]

\* the broadcast System: bounds, inputs and initial records

\* the last clock value of this driver
BcMaxTime == 3

\* the number of calls made on the System
MaxBcOps == 4

\* the goroutines calling StartBroadcast
BcProcs == {1, 2}

\* the users: a name, and the empty name
BcUsers == {<<97>>, <<>>}

\* a string that is no base64 text
BadID == <<33>>

\* a caller of StartBroadcast outside the call
IdleStart == [pc |-> "idle", user |-> <<>>, id |-> <<>>, n |-> 0]

\* no call made yet
NoBcCall == [op |-> "", user |-> <<>>, id |-> <<>>, started |-> FALSE,
             live |-> FALSE, busy |-> FALSE,
             err |-> "", cur |-> RedisNil, after |-> <<>>, overlap |-> FALSE,
             before |-> EmptyMap, at |-> 0]

\* New(c, secret) on an empty redis; issued, started and open record the
\* ids NewID made, those StartBroadcast returned, and the broadcasts their
\* owners take to be live
NoBroadcast == [db |-> EmptyMap, g |-> [p \in BcProcs |-> IdleStart],
                next |-> 1, issued |-> {}, started |-> {}, open |-> {},
                last |-> NoBcCall, ops |-> 0]

\* requiresUserAuth on its own: every flag word of eight bits, and the five
\* methods it knows, one it does not, and a lower-case spelling

\* the flag words: every combination of the bits 1 << 0 .. 1 << 7
FlagWords == 0..255

AllMethods == {"GET", "POST", "PUT", "HEAD", "DELETE", "PATCH", "get"}

\* no call made yet
NoRua == [done |-> FALSE, flags |-> Default, method |-> "", res |-> FALSE]

\* goroutines sharing one RateLimitMem: bounds and initial records

\* the last clock value of this driver
ConcMaxTime == 3

\* the number of calls the goroutines make
MaxConcOps == 4

\* the goroutines calling the limiter
ConcProcs == {1, 2}

\* the identifier they call it with
ConcKeys == {<<49>>}

\* the amounts they add and remove
ConcAmounts == {1, 2}

\* the limiter they share
ConcLimiter == TestLimiter

\* Clean's staleTimeout, in clock ticks
StaleAfter == 1

\* a goroutine outside any call
IdleProc == [pc |-> "idle", key |-> <<>>, lm |-> 0, toAdd |-> 0, res |-> ""]

\* Clean outside any call; lost records the keys it deleted although they
\* were modified after it had collected them
NoSweep == [pc |-> "idle", keys |-> {}, touched |-> {}, lost |-> {}]

\* what is recorded of a key the map does not hold
NoHist == [live |-> FALSE, base |-> 0, credited |-> 0, incs |-> 0,
           decs |-> 0, clamped |-> FALSE]

\* no IncrByCeil call made yet
NoIncr == [done |-> FALSE, key |-> <<>>, amount |-> 0, max |-> 0,
           old |-> 0, val |-> 0, maxd |-> FALSE, stored |-> ZeroKeyval,
           at |-> 0]

NoConc == [g |-> [p \in ConcProcs |-> IdleProc], sweep |-> NoSweep,
           hist |-> [k \in ConcKeys |-> NoHist], lastIncr |-> NoIncr,
           ops |-> 0]

\* the room System: bounds and initial records

\* the last value of the room clock
RoomMaxTime == 7

\* the number of calls made on the room System
MaxRoomOps == 3

\* the rooms: a name, and the empty name
Rooms == {<<114>>, <<>>}

\* the users checking in
RoomUsers == {<<97>>, <<98>>}

\* no call made yet
NoRoomCall == [op |-> "", room |-> <<>>, id |-> <<>>,
               before |-> [r \in Rooms |-> <<>>],
               after |-> [r \in Rooms |-> <<>>],
               cardBefore |-> [r \in Rooms |-> 0],
               cardAfter |-> [r \in Rooms |-> 0]]

\* New(p, opts) on an empty redis, removeIdle not running, the clock a
\* CheckInPeriod past its origin; checked records the clock value of each
\* member's last CheckIn, swept the members that removeIdle's last command
\* took out
NoRooms == [db |-> [k \in {} |-> {}], t |-> CheckInPeriod,
            sweeping |-> FALSE, expire |-> 0, todo |-> {},
            checked |-> {}, swept |-> {}, last |-> NoRoomCall, ops |-> 0]

\* the user System: bounds and initial records

\* the last value of the user clock
UserMaxTime == 1

\* the number of calls made on the user System
MaxUserOps == 4

\* the goroutines calling Create
UserProcs == {1, 2}

\* the username the calls are made on: "u"
UserNames == {<<117>>}

\* the usernames Create is given: "u", and the banned "root"
NewNames == UserNames \cup {<<114, 111, 111, 116>>}

\* the passwords
Passwords == {<<112>>, <<113>>}

\* the email Create is given
Emails == {<<101>>}

\* the Infos given to Set: empty, an editable field, a field that is not
\* editable, a field the System does not have
Infos == {<<>>, <<<<"Email", <<102>>>>>>, <<<<"Name", <<120>>>>>>,
          <<<<"Nick", <<120>>>>>>}

\* a goroutine outside Create
IdleCreate == [pc |-> "idle", user |-> <<>>, password |-> <<>>,
               pairs |-> <<>>, err |-> "", fresh |-> FALSE, raced |-> FALSE]

\* no call made yet
NoUserCall == [op |-> "", user |-> <<>>, err |-> "", same |-> TRUE,
               existed |-> FALSE, wasOff |-> FALSE, good |-> FALSE]

\* New(c) on an empty redis; created records the users Create has made and
\* the password each has now, off the created users that Disable was called
\* on and Enable was not since
NoUsers == [db |-> [k \in {} |-> <<>>], t |-> 0,
            g |-> [p \in UserProcs |-> IdleCreate],
            created |-> {}, off |-> {}, last |-> NoUserCall, ops |-> 0]

\* ------------------------------------------------------------------------
\* The sig driver: sign, present (as issued, tampered, mangled, assembled),
\* extract, let time pass
\* ------------------------------------------------------------------------

Init ==
    /\ now = 1
    /\ sigIssued = NoToken
    /\ sigTok = <<>>
    /\ sigSeg = "none"
    /\ sigOut = NoOut
    /\ sigRefused = FALSE
    /\ utIssued = NoUserToken
    /\ utTok = <<>>
    /\ utSeg = "none"
    /\ utOut = NoUserOut
    /\ secretCfg \in {NilSecret, SecretA}
    /\ store = EmptyMap
    /\ wallet = EmptyWallet
    /\ gate = IdleGate
    /\ lim = NoLimiter
    /\ conc = NoConc
    /\ bc = NoBroadcast
    /\ rua = NoRua
    /\ rm = NoRooms
    /\ us = NoUsers

\* time passes
Tick ==
    /\ now < MaxTime
    /\ now' = now + 1
    /\ sigOut' = NoOut
    /\ utOut' = NoUserOut
    /\ UNCHANGED <<sigIssued, sigTok, sigSeg, sigRefused>>
    /\ UNCHANGED <<utIssued, utTok, utSeg>>
    /\ UNCHANGED <<secretCfg, store, wallet>>
    /\ gate.pc # "done"
    /\ UNCHANGED <<gate, lim, concVars, bcVars, ruaVars, rmVars, usVars>>

\* sig.New(data, secret, timeout)
New ==
    /\ ~sigIssued.live
    /\ \E data \in Payloads, secret \in Secrets, timeout \in TTLs :
          LET tok == SigNew(data, secret, timeout, now)
          IN  /\ sigIssued' = [live |-> TRUE, data |-> data, secret |-> secret,
                               timeout |-> timeout, at |-> now, tok |-> tok]
              /\ sigTok' = tok
    /\ sigSeg' = "none"
    /\ sigOut' = NoOut
    /\ UNCHANGED <<now, sigRefused, utVars, gateVars, limVars, concVars,
                   bcVars, ruaVars, rmVars, usVars>>

\* the client changes one segment of the issued token
Tamper ==
    /\ sigIssued.live
    /\ sigSeg = "none"
    /\ \E seg \in Segments :
          /\ sigSeg' = seg
          /\ \E t \in Tampered(sigIssued.tok, seg) : sigTok' = t
    /\ sigOut' = NoOut
    /\ UNCHANGED <<now, sigIssued, sigRefused, utVars, gateVars, limVars,
                   concVars, bcVars, ruaVars, rmVars, usVars>>

\* the client presents a string that is not three segments
Mangle ==
    /\ sigIssued.live
    /\ sigSeg = "none"
    /\ sigSeg' = "mangled"
    /\ \E t \in Mangled(sigIssued.tok) : sigTok' = t
    /\ sigOut' = NoOut
    /\ UNCHANGED <<now, sigIssued, sigRefused, utVars, gateVars, limVars,
                   concVars, bcVars, ruaVars, rmVars, usVars>>

\* a holder of the secret presents a token around undecodable expiry bytes
Forge ==
    /\ sigIssued.live
    /\ sigSeg = "none"
    /\ sigSeg' = "forged"
    /\ \E e \in BadExpiries :
          sigTok' = Assemble(sigIssued.data, e, sigIssued.secret)
    /\ sigOut' = NoOut
    /\ UNCHANGED <<now, sigIssued, sigRefused, utVars, gateVars, limVars,
                   concVars, bcVars, ruaVars, rmVars, usVars>>

\* sig.Extract(sigTok, secret)
DoExtract ==
    /\ sigIssued.live
    /\ ~sigOut.done
    /\ \E secret \in Secrets :
          /\ sigOut' = [done |-> TRUE, secret |-> secret,
                        res |-> Extract(sigTok, secret, now)]
          /\ sigRefused' =
                (\/ sigRefused
                 \/ /\ sigSeg = "none"
                    /\ secret = sigIssued.secret
                    /\ Extract(sigTok, secret, now) = Nil)
    /\ UNCHANGED <<now, sigIssued, sigTok, sigSeg, utVars, gateVars,
                   limVars, concVars, bcVars, ruaVars, rmVars, usVars>>

\* usertok.New(user, secret)
UserNew ==
    /\ ~utIssued.live
    /\ \E user \in Users, secret \in Secrets, shared \in Nonces :
          LET tok == UserTokNew(user, secret, shared, now)
          IN  /\ utIssued' = [live |-> TRUE, user |-> user, secret |-> secret,
                              at |-> now, tok |-> tok, used |-> FALSE]
              /\ utTok' = tok
    /\ utSeg' = "none"
    /\ utOut' = NoUserOut
    /\ UNCHANGED <<now, sigVars, gateVars, limVars, concVars, bcVars,
                   ruaVars, rmVars, usVars>>

\* the client changes one segment of the issued user token
UserTamper ==
    /\ utIssued.live
    /\ utSeg = "none"
    /\ \E seg \in Segments :
          /\ utSeg' = seg
          /\ \E t \in Tampered(utIssued.tok, seg) : utTok' = t
    /\ utOut' = NoUserOut
    /\ UNCHANGED <<now, sigVars, gateVars, limVars, utIssued, concVars,
                   bcVars, ruaVars, rmVars, usVars>>

\* the client presents a string that is not three segments
UserMangle ==
    /\ utIssued.live
    /\ utSeg = "none"
    /\ utSeg' = "mangled"
    /\ \E t \in Mangled(utIssued.tok) : utTok' = t
    /\ utOut' = NoUserOut
    /\ UNCHANGED <<now, sigVars, gateVars, limVars, utIssued, concVars,
                   bcVars, ruaVars, rmVars, usVars>>

\* usertok.ExtractUser(utTok, secret)
DoExtractUser ==
    /\ utIssued.live
    /\ ~utOut.done
    /\ \E secret \in Secrets :
       \E user \in {ExtractUser(utTok, secret, now)} :
          /\ utOut' = [done |-> TRUE, secret |-> secret, user |-> user]
          /\ utIssued' = [utIssued EXCEPT
                            !.used = \/ @
                                     \/ /\ utSeg = "none"
                                        /\ secret = utIssued.secret
                                        /\ user # <<>>]
    /\ UNCHANGED <<now, sigVars, gateVars, limVars, utTok, utSeg, concVars,
                   bcVars, ruaVars, rmVars, usVars>>

NextUserTok == Tick \/ UserNew \/ UserTamper \/ UserMangle \/ DoExtractUser

SpecUserTok == Init /\ [][NextUserTok]_vars

\* ------------------------------------------------------------------------
\* The gate: tokens are handed out, requests pass through ServeHTTP
\* ------------------------------------------------------------------------

\* API.NewAPIToken; the client asks for its tokens once, before it sends
\* requests
NewAPIToken ==
    /\ ~wallet.apiCalled
    /\ gate.served = 0 /\ gate.pc = "idle"
    /\ wallet' = [wallet EXCEPT
                    !.apiCalled = TRUE,
                    !.apiTok = IF secretCfg = NilSecret THEN <<>>
                               ELSE ApiTokNew(secretCfg, 117, now)]
    /\ UNCHANGED <<now, sigVars, utVars, limVars, secretCfg, store, gate,
                   concVars, bcVars, ruaVars, rmVars, usVars>>

\* API.NewUserToken(user)
NewUserToken ==
    /\ ~wallet.userCalled
    /\ gate.served = 0 /\ gate.pc = "idle"
    /\ \E user \in GateUsers, shared \in {<<0>>} :
          wallet' = [wallet EXCEPT
                       !.userCalled = TRUE,
                       !.user = user,
                       !.userTok = IF secretCfg = NilSecret THEN <<>>
                                   ELSE UserTokNew(user, secretCfg, shared,
                                                   now)]
    /\ UNCHANGED <<now, sigVars, utVars, limVars, secretCfg, store, gate,
                   concVars, bcVars, ruaVars, rmVars, usVars>>

\* ServeHTTP from its entry to the call of the wrapped handler: the quota
\* step, the user-identity step, then either an error response or the
\* handler is started
GateCheck ==
    /\ gate.pc = "idle"
    /\ gate.served < MaxRequests
    /\ \E r \in Requests(wallet) :
       \E q \in {GateQuota(NewRateLimiter, store, secretCfg, r, now)} :
       \E u \in {GateUser(secretCfg, r, now)} :
          LET err == IF q.err # "" THEN q.err ELSE u.err
              user == IF err # "" THEN <<>> ELSE u.user
          IN  /\ store' = q.m
              /\ gate' = [pc |-> GateStage(err),
                          req |-> r, at |-> now, err |-> err,
                          token |-> q.token,
                          asked |-> q.asked,
                          userChecked |-> q.err = "",
                          user |-> user,
                          seen |-> IF GateStage(err) = "handling"
                                   THEN FormValue(AddAsUser(r.asUser, user))
                                   ELSE <<>>,
                          handled |-> GateStage(err) = "handling",
                          charged |-> Nil, before |-> store,
                          served |-> gate.served + 1]
    /\ UNCHANGED <<now, sigVars, utVars, limVars, secretCfg, wallet,
                   concVars, bcVars, ruaVars, rmVars, usVars>>

\* the wrapped handler returns; ServeHTTP charges the time it took
GateFinish ==
    /\ gate.pc = "handling"
    /\ store' = IF gate.token # <<>>
                THEN Use(store, gate.token, now - gate.at, now)
                ELSE store
    /\ gate' = [gate EXCEPT
                  !.pc = "done",
                  !.charged = IF gate.token # <<>> THEN gate.token ELSE Nil]
    /\ UNCHANGED <<now, sigVars, utVars, limVars, secretCfg, wallet,
                   concVars, bcVars, ruaVars, rmVars, usVars>>

\* the response is with the client; the gate is free for the next request
GateRespond ==
    /\ gate.pc = "done"
    /\ gate' = [IdleGate EXCEPT !.served = gate.served]
    /\ UNCHANGED <<now, sigVars, utVars, limVars, secretCfg, store, wallet,
                   concVars, bcVars, ruaVars, rmVars, usVars>>

Next ==
    Tick \/ NewAPIToken \/ NewUserToken \/ GateCheck \/ GateFinish
    \/ GateRespond

Spec == Init /\ [][Next]_vars

\* ------------------------------------------------------------------------
\* The limiter driver: configure, CanUse, CanUseRaw, Use, sleep
\* ------------------------------------------------------------------------

\* r := NewRateLimiter(); r.Capacity = ...; r.Interval = ...;
\* r.PerInterval = ...
LimConfigure ==
    /\ ~lim.set
    /\ store = EmptyMap
    /\ \E cfg \in LimiterCfgs :
          lim' = [NoLimiter EXCEPT !.set = TRUE, !.cfg = cfg]
    /\ UNCHANGED <<now, sigVars, utVars, gateVars, concVars, bcVars,
                   ruaVars, rmVars, usVars>>

\* r.CanUse(token, secret)
LimCanUse ==
    /\ lim.set
    /\ \E token \in {LimToken, LimAddr} :
       \E cu \in {CanUse(lim.cfg, store, token, SecretA, now)} :
          /\ store' = cu.m
          /\ lim' = [lim EXCEPT
                       !.last = [op |-> "CanUse", key |-> token, arg |-> 0,
                                 res |-> cu.res,
                                 before |-> Lookup(store, token),
                                 m |-> store, at |-> now],
                       !.script = IF token = LimToken
                                  THEN ScriptStep(lim.script, "CanUse")
                                  ELSE -1,
                       !.debt = IF token = LimToken /\ lim.debt.live
                                THEN [lim.debt EXCEPT
                                        !.credited =
                                            @ + Due(lim.cfg,
                                                    Lookup(store, token), now)]
                                ELSE lim.debt]
    /\ UNCHANGED <<now, sigVars, utVars, secretCfg, wallet, gate, concVars,
                   bcVars, ruaVars, rmVars, usVars>>

\* r.CanUseRaw(identifier)
LimCanUseRaw ==
    /\ lim.set
    /\ \E cu \in {CanUseRaw(lim.cfg, store, LimAddr, now)} :
          /\ store' = cu.m
          /\ lim' = [lim EXCEPT
                       !.last = [op |-> "CanUseRaw", key |-> LimAddr,
                                 arg |-> 0, res |-> cu.res,
                                 before |-> Lookup(store, LimAddr),
                                 m |-> store, at |-> now],
                       !.script = -1]
    /\ UNCHANGED <<now, sigVars, utVars, secretCfg, wallet, gate, concVars,
                   bcVars, ruaVars, rmVars, usVars>>

\* r.Use(identifier, toRemove)
LimUse ==
    /\ lim.set
    /\ \E key \in {LimToken, LimAddr}, d \in 0 .. MaxCharge :
          /\ Lookup(store, key).val - d >= -MaxDebt
          /\ store' = Use(store, key, d, now)
          /\ lim' = [lim EXCEPT
                       !.last = [op |-> "Use", key |-> key, arg |-> d,
                                 res |-> "", before |-> Lookup(store, key),
                                 m |-> store, at |-> now],
                       !.script = IF key = LimToken /\ d = 1
                                  THEN ScriptStep(lim.script, "Use1")
                                  ELSE -1,
                       !.debt = IF key # LimToken THEN lim.debt
                                ELSE IF Lookup(store, key).val - d < 0
                                THEN [live |-> TRUE,
                                      owed |-> d - Lookup(store, key).val,
                                      credited |-> 0]
                                ELSE NoDebt]
    /\ UNCHANGED <<now, sigVars, utVars, secretCfg, wallet, gate, concVars,
                   bcVars, ruaVars, rmVars, usVars>>

\* r.Backend.Get(identifier)
LimGet ==
    /\ lim.set
    /\ \E key \in {LimToken, LimAddr} :
          lim' = [lim EXCEPT
                    !.last = [op |-> "Get", key |-> key,
                              arg |-> Get(store, key), res |-> "",
                              before |-> Lookup(store, key), m |-> store,
                              at |-> now],
                    !.script = -1]
    /\ UNCHANGED <<now, sigVars, utVars, gateVars, concVars, bcVars,
                   ruaVars, rmVars, usVars>>

\* time.Sleep(1 * time.Second)
LimSleep ==
    /\ lim.set
    /\ now < LimMaxTime
    /\ now' = now + 1
    /\ lim' = [lim EXCEPT !.script = ScriptStep(lim.script, "Sleep")]
    /\ UNCHANGED <<sigVars, utVars, gateVars, concVars, bcVars, ruaVars,
                   rmVars, usVars>>

NextLimiter ==
    LimConfigure \/ LimCanUse \/ LimCanUseRaw \/ LimUse \/ LimGet \/ LimSleep

SpecLimiter == Init /\ [][NextLimiter]_vars

\* the limiter polled for an address: time goes on, and whoever was refused
\* asks again
NextRecover == LimConfigure \/ LimCanUseRaw \/ LimUse \/ LimSleep

SpecRecover ==
    /\ Init
    /\ [][NextRecover]_vars
    /\ WF_vars(LimSleep)
    /\ WF_vars(LimCanUseRaw)

\* ------------------------------------------------------------------------
\* Goroutines sharing one RateLimitMem. Each method of RateLimitMem holds
\* m.l for its whole body and is one step; CanUseRaw is two steps, its
\* LastModified call and its IncrByCeil or Get call; Clean is two steps,
\* the collection under RLock and the deletion under Lock.
\* ------------------------------------------------------------------------

\* the record of a key after IncrByCeil(key, amount, ..) returned r, the
\* value having been old; refill tells a call that CanUseRaw made for the
\* time since a lastModified it had read (not for a key it found unseen)
HistIncr(h, refill, amount, old, r, t) ==
    [live |-> TRUE,
     base |-> IF h.live THEN h.base ELSE t,
     credited |-> IF h.live /\ refill THEN h.credited + (r.val - old)
                  ELSE h.credited,
     incs |-> h.incs + amount, decs |-> h.decs,
     clamped |-> h.clamped \/ r.maxd]

\* the record of a key after DecrBy(key, amount)
HistDecr(h, amount, t) ==
    [h EXCEPT !.live = TRUE, !.base = IF h.live THEN h.base ELSE t,
              !.decs = h.decs + amount]

\* Clean's window: the keys written between its two steps
Touched(sw, key) ==
    IF sw.pc = "collected" THEN [sw EXCEPT !.touched = @ \cup {key}] ELSE sw

\* the record of an IncrByCeil call
IncrCall(m, key, amount, max, r, t) ==
    [done |-> TRUE, key |-> key, amount |-> amount, max |-> max,
     old |-> Lookup(m, key).val, val |-> r.val, maxd |-> r.maxd,
     stored |-> Lookup(r.m, key), at |-> t]

\* CanUseRaw up to its LastModified call: lm, since and toAdd
ConcBegin(p) ==
    /\ conc.ops < MaxConcOps
    /\ conc.g[p].pc = "idle"
    /\ \E k \in ConcKeys : \E lm \in {LastModified(store, k)} :
       \E since \in {Since(lm, now)} :
          conc' = [conc EXCEPT
                     !.g[p] = [pc |-> "canuse", key |-> k, lm |-> lm,
                               toAdd |-> Wrap((since \div ConcLimiter.Interval)
                                              * ConcLimiter.PerInterval),
                               res |-> ""],
                     !.ops = @ + 1]
    /\ UNCHANGED <<now, sigVars, utVars, gateVars, limVars, bcVars,
                   ruaVars, rmVars, usVars>>

\* the rest of CanUseRaw: IncrByCeil when toAdd > 0, else Get
ConcEnd(p) ==
    /\ conc.g[p].pc = "canuse"
    /\ \E k \in {conc.g[p].key} : \E toAdd \in {conc.g[p].toAdd} :
       \E r \in {IncrByCeil(store, k, toAdd, ConcLimiter.Capacity, now)} :
       \E timeLeft \in {IF toAdd > 0 THEN r.val ELSE Get(store, k)} :
       \E res \in {IF timeLeft <= 0 THEN "RateLimited" ELSE "Success"} :
          IF toAdd > 0
          THEN /\ store' = r.m
               /\ conc' = [conc EXCEPT
                             !.g[p] = [IdleProc EXCEPT !.res = res],
                             !.hist[k] = HistIncr(@, conc.g[p].lm # 0, toAdd,
                                                  Lookup(store, k).val, r, now),
                             !.sweep = Touched(@, k),
                             !.lastIncr = IncrCall(store, k, toAdd,
                                                   ConcLimiter.Capacity, r, now)]
          ELSE /\ store' = store
               /\ conc' = [conc EXCEPT !.g[p] = [IdleProc EXCEPT !.res = res]]
    /\ UNCHANGED <<now, sigVars, utVars, limVars, secretCfg, wallet, gate,
                   bcVars, ruaVars, rmVars, usVars>>

\* a goroutine calling IncrByCeil itself
ConcIncr(p) ==
    /\ conc.ops < MaxConcOps
    /\ conc.g[p].pc = "idle"
    /\ \E k \in ConcKeys : \E amount \in ConcAmounts :
       \E r \in {IncrByCeil(store, k, amount, ConcLimiter.Capacity, now)} :
          /\ store' = r.m
          /\ conc' = [conc EXCEPT
                        !.hist[k] = HistIncr(@, FALSE, amount,
                                             Lookup(store, k).val, r, now),
                        !.sweep = Touched(@, k),
                        !.lastIncr = IncrCall(store, k, amount,
                                              ConcLimiter.Capacity, r, now),
                        !.ops = @ + 1]
    /\ UNCHANGED <<now, sigVars, utVars, limVars, secretCfg, wallet, gate,
                   bcVars, ruaVars, rmVars, usVars>>

\* a goroutine calling Use, that is DecrBy
ConcUse(p) ==
    /\ conc.ops < MaxConcOps
    /\ conc.g[p].pc = "idle"
    /\ \E k \in ConcKeys : \E toRemove \in ConcAmounts :
          /\ store' = Use(store, k, toRemove, now)
          /\ conc' = [conc EXCEPT
                        !.hist[k] = HistDecr(@, toRemove, now),
                        !.sweep = Touched(@, k),
                        !.ops = @ + 1]
    /\ UNCHANGED <<now, sigVars, utVars, limVars, secretCfg, wallet, gate,
                   bcVars, ruaVars, rmVars, usVars>>

\* Clean(StaleAfter) up to RUnlock: keysToClean
ConcCollect ==
    /\ conc.ops < MaxConcOps
    /\ conc.sweep.pc = "idle"
    /\ conc' = [conc EXCEPT
                  !.sweep = [pc |-> "collected",
                             keys |-> {k \in DOMAIN store :
                                         now - StaleAfter > store[k].tsMod},
                             touched |-> {}, lost |-> conc.sweep.lost],
                  !.ops = @ + 1]
    /\ UNCHANGED <<now, sigVars, utVars, gateVars, limVars, bcVars,
                   ruaVars, rmVars, usVars>>

\* the rest of Clean: the deletions under Lock
ConcDelete ==
    /\ conc.sweep.pc = "collected"
    /\ store' = [k \in DOMAIN store \ conc.sweep.keys |-> store[k]]
    /\ conc' = [conc EXCEPT
                  !.sweep = [pc |-> "idle", keys |-> conc.sweep.keys,
                             touched |-> conc.sweep.touched,
                             lost |-> conc.sweep.lost
                                      \cup (conc.sweep.keys
                                            \cap conc.sweep.touched)],
                  !.hist = [k \in ConcKeys |->
                              IF k \in conc.sweep.keys THEN NoHist
                              ELSE conc.hist[k]]]
    /\ UNCHANGED <<now, sigVars, utVars, limVars, secretCfg, wallet, gate,
                   bcVars, ruaVars, rmVars, usVars>>

\* the clock advancing while the goroutines run
ConcTick ==
    /\ now < ConcMaxTime
    /\ now' = now + 1
    /\ UNCHANGED <<sigVars, utVars, gateVars, limVars, concVars, bcVars,
                   ruaVars, rmVars, usVars>>

NextConc ==
    \/ \E p \in ConcProcs :
          ConcBegin(p) \/ ConcEnd(p) \/ ConcIncr(p) \/ ConcUse(p)
    \/ ConcCollect
    \/ ConcDelete
    \/ ConcTick

SpecConc == Init /\ [][NextConc]_vars

\* ------------------------------------------------------------------------
\* The broadcast driver: StartBroadcast in two steps (NewID, then SET), the
\* scripts of StillAlive and EndBroadcast in one step each, the clock
\* ------------------------------------------------------------------------

\* the ids handed out so far, and one string that is no id
KnownIDs == {i.id : i \in bc.issued} \cup {BadID}

\* the user an id was made for
IssuedFor(id) ==
    IF \E i \in bc.issued : i.id = id
    THEN (CHOOSE i \in bc.issued : i.id = id).user
    ELSE <<>>

\* the broadcasts of open that their owners still take to be live at t
OpenAt(open, t) == {o \in open : t < o.until}

\* the record of a call
BcCall(op, user, id, r, overlap) ==
    [op |-> op, user |-> user, id |-> id,
     started |-> id \in bc.started,
     live |-> \E o \in OpenAt(bc.open, now) : o.id = id,
     busy |-> \E o \in OpenAt(bc.open, now) : o.user = user,
     err |-> r.err, cur |-> RedisGet(bc.db, UserKey(user), now),
     after |-> GetBroadcastID(r.db, user, now).id, overlap |-> overlap,
     before |-> bc.db, at |-> now]

\* StartBroadcast up to NewID
BcNewID(p) ==
    /\ bc.ops < MaxBcOps
    /\ bc.g[p].pc = "idle"
    /\ \E user \in BcUsers : \E id \in {NewID(user, <<bc.next>>)} :
          bc' = [bc EXCEPT
                   !.g[p] = [pc |-> "set", user |-> user, id |-> id,
                             n |-> bc.next],
                   !.next = @ + 1,
                   !.issued = @ \cup {[id |-> id, user |-> user, n |-> bc.next]},
                   !.ops = @ + 1]
    /\ UNCHANGED <<now, sigVars, utVars, gateVars, limVars, concVars,
                   ruaVars, rmVars, usVars>>

\* the rest of StartBroadcast: the SET and the result
BcSet(p) ==
    /\ bc.g[p].pc = "set"
    /\ \E user \in {bc.g[p].user} : \E id \in {bc.g[p].id} :
       \E r \in {StartBroadcast(bc.db, user, id, now)} :
       \E overlap \in {\E i \in bc.issued :
                           /\ i.id = RedisGet(bc.db, UserKey(user), now)
                           /\ i.n > bc.g[p].n} :
          bc' = [bc EXCEPT
                   !.db = r.db,
                   !.g[p] = IdleStart,
                   !.started = IF r.err = "" THEN @ \cup {id} ELSE @,
                   !.open = IF r.err = ""
                            THEN @ \cup {[user |-> user, id |-> id,
                                          until |-> now + AlivenessPeriod]}
                            ELSE @,
                   !.last = BcCall("Start", user, id, r, overlap)]
    /\ UNCHANGED <<now, sigVars, utVars, gateVars, limVars, concVars,
                   ruaVars, rmVars, usVars>>

\* StillAlive(id)
BcStillAlive ==
    /\ bc.ops < MaxBcOps
    /\ \E id \in KnownIDs : \E r \in {StillAlive(bc.db, id, now)} :
          bc' = [bc EXCEPT
                   !.db = r.db,
                   !.open = IF r.err = ""
                            THEN {o \in @ : o.id # id}
                                 \cup {[user |-> IssuedFor(id), id |-> id,
                                        until |-> now + AlivenessPeriod]}
                            ELSE @,
                   !.last = BcCall("StillAlive", IssuedFor(id), id, r, FALSE),
                   !.ops = @ + 1]
    /\ UNCHANGED <<now, sigVars, utVars, gateVars, limVars, concVars,
                   ruaVars, rmVars, usVars>>

\* EndBroadcast(id)
BcEnd ==
    /\ bc.ops < MaxBcOps
    /\ \E id \in KnownIDs : \E r \in {EndBroadcast(bc.db, id, now)} :
          bc' = [bc EXCEPT
                   !.db = r.db,
                   !.open = IF r.err = "" THEN {o \in @ : o.id # id} ELSE @,
                   !.last = BcCall("End", IssuedFor(id), id, r, FALSE),
                   !.ops = @ + 1]
    /\ UNCHANGED <<now, sigVars, utVars, gateVars, limVars, concVars,
                   ruaVars, rmVars, usVars>>

\* a second of redis' clock
BcTick ==
    /\ now < BcMaxTime
    /\ now' = now + 1
    /\ UNCHANGED <<sigVars, utVars, gateVars, limVars, concVars, bcVars,
                   ruaVars, rmVars, usVars>>

NextBroadcast ==
    \/ \E p \in BcProcs : BcNewID(p) \/ BcSet(p)
    \/ BcStillAlive
    \/ BcEnd
    \/ BcTick

SpecBroadcast == Init /\ [][NextBroadcast]_vars

\* ------------------------------------------------------------------------
\* requiresUserAuth called with any flags and method
\* ------------------------------------------------------------------------

\* ah.requiresUserAuth(r) for an endpoint with flags and a request with method
RuaCall ==
    /\ \E flags \in FlagWords : \E method \in AllMethods :
          rua' = [done |-> TRUE, flags |-> flags, method |-> method,
                  res |-> RequiresUserAuth(flags, method)]
    /\ UNCHANGED <<now, sigVars, utVars, gateVars, limVars, concVars,
                   bcVars, rmVars, usVars>>

NextFlags == RuaCall

SpecFlags == Init /\ [][NextFlags]_vars

\* ------------------------------------------------------------------------
\* The room driver: CheckIn and CheckOut, removeIdle in steps (the scan
\* starts, one command for each key it delivers), the clock
\* ------------------------------------------------------------------------

\* what Members and Cardinality answer for every room
MembersOf(db) == [r \in Rooms |-> Members(db, r)]

CardinalityOf(db) == [r \in Rooms |-> RoomCardinality(db, r)]

\* the record of a call that took db to after
RoomCall(op, room, id, after) ==
    [op |-> op, room |-> room, id |-> id,
     before |-> MembersOf(rm.db), after |-> MembersOf(after),
     cardBefore |-> CardinalityOf(rm.db), cardAfter |-> CardinalityOf(after)]

RmCheckIn ==
    /\ rm.ops < MaxRoomOps
    /\ \E room \in Rooms, id \in RoomUsers :
         \E after \in {CheckIn(rm.db, room, id, rm.t)} :
           rm' = [rm EXCEPT
                    !.db = after,
                    !.checked = {c \in @ : ~(c.key = RoomKey(room)
                                             /\ c.id = id)}
                                \cup {[key |-> RoomKey(room), id |-> id,
                                       at |-> rm.t]},
                    !.last = RoomCall("CheckIn", room, id, after),
                    !.ops = @ + 1]
    /\ UNCHANGED <<now, sigVars, utVars, gateVars, limVars, concVars, bcVars,
                   ruaVars, usVars>>

RmCheckOut ==
    /\ rm.ops < MaxRoomOps
    /\ \E room \in Rooms, id \in RoomUsers :
         \E after \in {CheckOut(rm.db, room, id)} :
           rm' = [rm EXCEPT
                    !.db = after,
                    !.checked = {c \in @ : ~(c.key = RoomKey(room)
                                             /\ c.id = id)},
                    !.last = RoomCall("CheckOut", room, id, after),
                    !.ops = @ + 1]
    /\ UNCHANGED <<now, sigVars, utVars, gateVars, limVars, concVars, bcVars,
                   ruaVars, usVars>>

\* spin's ticker fires: removeIdle takes its expire from the clock and starts
\* the scan, which is to deliver the keys that match
RmSweepStart ==
    /\ ~rm.sweeping
    /\ rm' = [rm EXCEPT
                !.sweeping = TRUE,
                !.expire = ExpireBefore(rm.t),
                !.todo = {k \in DOMAIN rm.db : MatchesRoomKeys(k)},
                !.swept = {}]
    /\ UNCHANGED <<now, sigVars, utVars, gateVars, limVars, concVars, bcVars,
                   ruaVars, usVars>>

\* removeIdle's loop takes a key from the scan and sends its command
RmSweepKey ==
    /\ rm.sweeping
    /\ \E key \in rm.todo :
         \E after \in {RemoveIdleAt(rm.db, key, rm.expire)} :
           LET gone == {e.id : e \in ZSetAt(rm.db, key) \ ZSetAt(after, key)}
           IN rm' = [rm EXCEPT
                       !.db = after,
                       !.todo = @ \ {key},
                       !.swept = {[key |-> c.key, id |-> c.id,
                                   checked |-> c.at, at |-> rm.t] :
                                  c \in {d \in rm.checked :
                                           d.key = key /\ d.id \in gone}},
                       !.checked = {c \in @ : ~(c.key = key
                                                /\ c.id \in gone)},
                       !.last = NoRoomCall]
    /\ UNCHANGED <<now, sigVars, utVars, gateVars, limVars, concVars, bcVars,
                   ruaVars, usVars>>

\* the scan closes its channel and removeIdle returns. The scan runs on a
\* connection that removeIdle has put back into the pool, where any command
\* may pick it up and take the scan's reply: the scan can end with an error
\* before it has delivered every key
RmSweepEnd ==
    /\ rm.sweeping
    /\ rm' = [rm EXCEPT !.sweeping = FALSE, !.todo = {}]
    /\ UNCHANGED <<now, sigVars, utVars, gateVars, limVars, concVars, bcVars,
                   ruaVars, usVars>>

\* time passes
RmTick ==
    /\ rm.t < RoomMaxTime
    /\ rm' = [rm EXCEPT !.t = @ + 1]
    /\ UNCHANGED <<now, sigVars, utVars, gateVars, limVars, concVars, bcVars,
                   ruaVars, usVars>>

NextRoom ==
    RmCheckIn \/ RmCheckOut \/ RmSweepStart \/ RmSweepKey \/ RmSweepEnd
        \/ RmTick

SpecRoom == Init /\ [][NextRoom]_vars

\* ------------------------------------------------------------------------
\* The user driver: Create in two steps (its arguments, then its script),
\* the other calls in one step each, the clock
\* ------------------------------------------------------------------------

\* the users Create has made
CreatedUsers == {c.user : c \in us.created}

\* the password a created user has now
PasswordOf(user) == (CHOOSE c \in us.created : c.user = user).password

\* the record of a call on user that returned err and left db as after
UserCall(op, user, err, after, good) ==
    [op |-> op, user |-> user, err |-> err, same |-> after = us.db,
     existed |-> user \in CreatedUsers, wasOff |-> user \in us.off,
     good |-> good]

\* Create builds its arguments, and returns at once for a banned username
UsCreateBegin(p) ==
    /\ us.ops < MaxUserOps
    /\ us.g[p].pc # "eval"
    /\ \E user \in NewNames, email \in Emails, password \in Passwords :
         \E a \in {CreateArgs(user, email, password, us.t)} :
           IF a.err # ""
           THEN us' = [us EXCEPT
                         !.g[p] = IdleCreate,
                         !.last = UserCall("Create", user, a.err, us.db,
                                           TRUE),
                         !.ops = @ + 1]
           ELSE LET met == {q \in UserProcs \ {p} :
                              us.g[q].pc = "eval" /\ us.g[q].user = user}
                IN us' = [us EXCEPT
                            !.g = [q \in UserProcs |->
                                     IF q = p
                                     THEN [pc |-> "eval", user |-> user,
                                           password |-> password,
                                           pairs |-> a.pairs, err |-> "",
                                           fresh |-> user \notin CreatedUsers,
                                           raced |-> met # {}]
                                     ELSE IF q \in met
                                     THEN [us.g[q] EXCEPT !.raced = TRUE]
                                     ELSE us.g[q]],
                            !.ops = @ + 1]
    /\ UNCHANGED <<now, sigVars, utVars, gateVars, limVars, concVars, bcVars,
                   ruaVars, rmVars>>

\* Create runs hmsetnx and returns
UsCreateEval(p) ==
    /\ us.g[p].pc = "eval"
    /\ \E r \in {CreateEval(us.db, us.g[p].user, us.g[p].pairs)} :
         us' = [us EXCEPT
                  !.db = r.db,
                  !.g[p].pc = "done",
                  !.g[p].err = r.err,
                  !.created = IF r.err = ""
                              THEN @ \cup {[user |-> us.g[p].user,
                                            password |-> us.g[p].password]}
                              ELSE @,
                  !.last = UserCall("Create", us.g[p].user, r.err, r.db,
                                    TRUE)]
    /\ UNCHANGED <<now, sigVars, utVars, gateVars, limVars, concVars, bcVars,
                   ruaVars, rmVars>>

UsDisable ==
    /\ us.ops < MaxUserOps
    /\ \E user \in UserNames :
         \E r \in {Disable(us.db, user, us.t)} :
           us' = [us EXCEPT
                    !.db = r.db,
                    !.off = IF user \in CreatedUsers THEN @ \cup {user}
                            ELSE @,
                    !.last = UserCall("Disable", user, r.err, r.db, TRUE),
                    !.ops = @ + 1]
    /\ UNCHANGED <<now, sigVars, utVars, gateVars, limVars, concVars, bcVars,
                   ruaVars, rmVars>>

UsEnable ==
    /\ us.ops < MaxUserOps
    /\ \E user \in UserNames :
         \E r \in {Enable(us.db, user)} :
           us' = [us EXCEPT
                    !.db = r.db,
                    !.off = @ \ {user},
                    !.last = UserCall("Enable", user, r.err, r.db, TRUE),
                    !.ops = @ + 1]
    /\ UNCHANGED <<now, sigVars, utVars, gateVars, limVars, concVars, bcVars,
                   ruaVars, rmVars>>

UsAuthenticate ==
    /\ us.ops < MaxUserOps
    /\ \E user \in UserNames, password \in Passwords :
         us' = [us EXCEPT
                  !.last = UserCall("Authenticate", user,
                                    Authenticate(us.db, user, password),
                                    us.db,
                                    /\ user \in CreatedUsers
                                    /\ password = PasswordOf(user)),
                  !.ops = @ + 1]
    /\ UNCHANGED <<now, sigVars, utVars, gateVars, limVars, concVars, bcVars,
                   ruaVars, rmVars>>

UsSet ==
    /\ us.ops < MaxUserOps
    /\ \E user \in UserNames, info \in Infos :
         \E r \in {SetInfo(us.db, user, info, us.t)} :
           us' = [us EXCEPT
                    !.db = r.db,
                    !.last = UserCall("Set", user, r.err, r.db,
                                      \A i \in 1..Len(info) :
                                        HasFlag(FieldOf(info[i][1]).Flags,
                                                Editable)),
                    !.ops = @ + 1]
    /\ UNCHANGED <<now, sigVars, utVars, gateVars, limVars, concVars, bcVars,
                   ruaVars, rmVars>>

UsChangePassword ==
    /\ us.ops < MaxUserOps
    /\ \E user \in UserNames, password \in Passwords :
         \E r \in {ChangePassword(us.db, user, password, us.t)} :
           us' = [us EXCEPT
                    !.db = r.db,
                    !.created = IF r.err = ""
                                THEN {c \in @ : c.user # user}
                                     \cup {[user |-> user,
                                            password |-> password]}
                                ELSE @,
                    !.last = UserCall("ChangePassword", user, r.err, r.db,
                                      TRUE),
                    !.ops = @ + 1]
    /\ UNCHANGED <<now, sigVars, utVars, gateVars, limVars, concVars, bcVars,
                   ruaVars, rmVars>>

\* time passes
UsTick ==
    /\ us.t < UserMaxTime
    /\ us' = [us EXCEPT !.t = @ + 1]
    /\ UNCHANGED <<now, sigVars, utVars, gateVars, limVars, concVars, bcVars,
                   ruaVars, rmVars>>

NextUser ==
    \/ \E p \in UserProcs : UsCreateBegin(p) \/ UsCreateEval(p)
    \/ UsDisable \/ UsEnable \/ UsAuthenticate \/ UsSet \/ UsChangePassword
    \/ UsTick

SpecUser == Init /\ [][NextUser]_vars

NextSig == Tick \/ New \/ Tamper \/ Mangle \/ Forge \/ DoExtract

SpecSig == Init /\ [][NextSig]_vars

\* ------------------------------------------------------------------------
\* Properties of package sig
\* ------------------------------------------------------------------------

\* the issued token's expiry instant, for a positive timeout
ExpiresAt == sigIssued.at + sigIssued.timeout

\* the last Extract was of the issued token as issued, under its own secret
ExtractedAsIssued ==
    /\ sigOut.done
    /\ sigSeg = "none"
    /\ sigOut.secret = sigIssued.secret

\* C1: sign/verify round trip. Extract of the token New(p, s, ttl) made,
\* ttl > 0, under the same secret s and before the token's expiry, returns
\* exactly p (the empty payload included).
C1_RoundTrip ==
    (ExtractedAsIssued /\ sigIssued.timeout > 0 /\ now < ExpiresAt)
        => sigOut.res = sigIssued.data

\* C1 witness: an empty payload came back from a timed token, not nil
C1_Witness ==
    /\ ExtractedAsIssued
    /\ sigIssued.timeout > 0
    /\ now < ExpiresAt
    /\ sigIssued.data = <<>>
    /\ sigOut.res = <<>>

\* C2: tamper rejection. Any change inside the payload, the expiry or the
\* signature segment of an issued token makes Extract under the signing
\* secret return nil.
C2_TamperRejected ==
    (sigOut.done /\ sigSeg \in Segments /\ sigOut.secret = sigIssued.secret)
        => sigOut.res = Nil

\* C3: cross-secret rejection. The token New(p, A, ttl) is rejected by
\* Extract under any other secret B, at every time.
C3_CrossSecret ==
    (sigOut.done /\ sigSeg = "none" /\ sigOut.secret # sigIssued.secret)
        => sigOut.res = Nil

\* C3 witness: an unexpired, untouched token was refused under the other
\* secret
C3_Witness ==
    /\ sigOut.done
    /\ sigSeg = "none"
    /\ sigOut.secret # sigIssued.secret
    /\ sigIssued.timeout <= 0
    /\ sigOut.res = Nil

\* C4: expiry enforcement. A token signed with ttl > 0 is accepted at every
\* time up to its expiry instant and refused at every time after it, its
\* signature still being valid; once refused it is never accepted again.
C4_Expiry ==
    (ExtractedAsIssued /\ sigIssued.timeout > 0)
        => /\ sigOut.res # Nil <=> now <= ExpiresAt
           /\ sigOut.res # Nil => ~sigRefused

\* C4 witness: a token with a valid signature was refused after its expiry
C4_Witness ==
    /\ ExtractedAsIssued
    /\ sigIssued.timeout > 0
    /\ now > ExpiresAt
    /\ sigOut.res = Nil
    /\ HmacEqual(Hmac(sigIssued.secret,
                      sigIssued.data \o MarshalBinary(TimeAt(ExpiresAt))),
                 B64Decode(Suffix(sigTok, SegBounds(sigTok, "sum")[1] - 1)))

\* the expiry bytes a token string carries
ExpiryBytesOf(tok) ==
    B64Decode(SubSeq(tok, SegBounds(tok, "expires")[1],
                     SegBounds(tok, "expires")[2]))

\* C5: a token made with ttl <= 0 carries the zero expiry and is accepted
\* under its secret at every later time.
C5_NeverExpires ==
    /\ (sigIssued.live /\ sigIssued.timeout <= 0)
          => IsZero(UnmarshalBinary(ExpiryBytesOf(sigIssued.tok)))
    /\ (ExtractedAsIssued /\ sigIssued.timeout <= 0)
          => sigOut.res = sigIssued.data

\* C5 witness: a ttl <= 0 token was accepted at the last tick of the clock,
\* after it was issued
C5_Witness ==
    /\ ExtractedAsIssued
    /\ sigIssued.timeout <= 0
    /\ now = MaxTime
    /\ now > sigIssued.at
    /\ sigOut.res = sigIssued.data

\* the number of c in s
RECURSIVE Count(_, _)
Count(s, c) ==
    IF Len(s) = 0 THEN 0
    ELSE (IF s[1] = c THEN 1 ELSE 0) + Count(Tail(s), c)

\* exactly three ':'-separated segments, each decodable as base64, the
\* middle one decodable as a time
WellFormed(tok) ==
    /\ Count(tok, Colon) = 2
    /\ \A seg \in Segments :
          B64Decode(SubSeq(tok, SegBounds(tok, seg)[1],
                           SegBounds(tok, seg)[2])) # Nil
    /\ Len(ExpiryBytesOf(tok)) = TimeBinaryLen
    /\ ExpiryBytesOf(tok)[1] = TimeBinaryVersion

\* C6: Extract returns nil for every string that is not exactly three
\* ':'-separated base64 segments with a decodable expiry.
C6_MalformedInvalid ==
    (sigOut.done /\ ~WellFormed(sigTok)) => sigOut.res = Nil

\* C6 witness: a token carrying a valid digest over undecodable expiry
\* bytes was refused under the secret that signed it
C6_Witness ==
    /\ sigOut.done
    /\ sigSeg = "forged"
    /\ sigOut.secret = sigIssued.secret
    /\ ~WellFormed(sigTok)
    /\ sigOut.res = Nil

\* ------------------------------------------------------------------------
\* Properties of package usertok
\* ------------------------------------------------------------------------

\* C7: ExtractUser(usertok.New(u, s), s) returns u while the token is
\* unexpired, for every user name u; for every string that fails
\* verification under s it returns the empty string.
C7_ExtractUser ==
    /\ (utOut.done /\ utSeg = "none" /\ utOut.secret = utIssued.secret
            /\ now <= utIssued.at + UserTokTTL)
          => utOut.user = utIssued.user
    /\ (utOut.done /\ ~Verify(utTok, utOut.secret, now))
          => utOut.user = <<>>

\* C7 witness: a user name holding ':' and a zero byte came back
C7_Witness ==
    /\ utOut.done
    /\ utSeg = "none"
    /\ utOut.secret = utIssued.secret
    /\ now <= utIssued.at + UserTokTTL
    /\ utIssued.user = <<109, Colon, 0>>
    /\ utOut.user = <<109, Colon, 0>>

\* ------------------------------------------------------------------------
\* Properties of the gate
\* ------------------------------------------------------------------------

\* ServeHTTP has taken its decision on gate.req
Checked == gate.pc \in {"handling", "done"}

\* the decision stands and the post-charge has not run: the map is as the
\* quota step left it
JustChecked == gate.pc = "handling" \/ (gate.pc = "done" /\ ~gate.handled)

\* the errors of the quota step
QuotaErrs ==
    {"ErrAPITokenMissing", "ErrAPITokenInvalid", "ErrAPITokenRateLimited",
     "ErrIPAddrRateLimited", "ErrUnknownProblem"}

PassedQuota == Checked /\ gate.err \notin QuotaErrs

\* the policy asks for user auth on the request's method
PolicyRequiresUser ==
    \/ gate.req.method = "GET" /\ HasFlag(gate.req.flags, RequireUserAuthGet)
    \/ gate.req.method = "POST" /\ HasFlag(gate.req.flags, RequireUserAuthPost)

\* the policy asks for an API token: not limited by address, and not
\* exempted
PolicyRequiresToken ==
    /\ ~HasFlag(gate.req.flags, IPRateLimited)
    /\ ~HasFlag(gate.req.flags, NoAPITokenRequired)

\* the request's user token verifies under the server's secret
UserTokVerifies ==
    /\ secretCfg # NilSecret
    /\ Verify(gate.req.userTok, secretCfg, gate.at)

\* the request's API token verifies under the server's secret
ApiTokVerifies ==
    /\ secretCfg # NilSecret
    /\ Verify(gate.req.apiTok, secretCfg, gate.at)

\* what the request's API token has in its bucket after the quota step
Budget == Lookup(store, gate.req.apiTok).val

\* the user-identity step as the claim words it
UserStepAsClaimed ==
    IF PolicyRequiresUser
    THEN /\ gate.req.userTok = <<>>
              => gate.err = "ErrUserTokenMissing" /\ ~gate.handled
         /\ (gate.req.userTok # <<>> /\ ~UserTokVerifies)
              => gate.err = "ErrUserTokenInvalid" /\ ~gate.handled
    ELSE gate.handled /\ gate.err = ""

TokenStepAsClaimed ==
    /\ PolicyRequiresToken =>
          /\ gate.req.apiTok = <<>> => gate.err = "ErrAPITokenMissing"
          /\ (gate.req.apiTok # <<>> /\ ~ApiTokVerifies)
                => gate.err = "ErrAPITokenInvalid"
          /\ (ApiTokVerifies /\ Budget <= 0)
                => gate.err = "ErrAPITokenRateLimited"
          /\ gate.err \notin QuotaErrs => (ApiTokVerifies /\ Budget > 0)
    /\ (HasFlag(gate.req.flags, NoAPITokenRequired) /\ gate.req.apiTok = <<>>)
          => gate.err \notin QuotaErrs

NoTokenIssued == wallet.apiTok = <<>> /\ wallet.userTok = <<>>

Rejected == Checked /\ gate.err # ""

\* C11: a request the gate rejects is over at once: the wrapped handler is
\* not invoked, RateLimiter.Use is not called for it, and when the quota
\* step rejected it the user-identity step did not run.
C11_FailFast ==
    Rejected =>
        /\ gate.pc = "done"
        /\ ~gate.handled
        /\ gate.charged = Nil
        /\ gate.err \in QuotaErrs => ~gate.userChecked
        /\ gate.err \notin QuotaErrs => gate.userChecked

\* C11 witness: a request without an API token and with a user token that
\* does not verify, on a method that needs user auth, was rejected by the
\* quota step alone
C11_Witness ==
    /\ Rejected
    /\ secretCfg # NilSecret
    /\ gate.err = "ErrAPITokenMissing"
    /\ PolicyRequiresUser
    /\ gate.req.userTok # <<>>
    /\ ~UserTokVerifies
    /\ ~gate.userChecked
    /\ ~gate.handled

\* the refill the quota step owes bucket k at the time of the request:
\* whole intervals since lastModified, times PerInterval
RefillDue(k) ==
    LET old == Lookup(gate.before, k)
        elapsed == IF old.tsMod = 0 THEN MaxDuration ELSE gate.at - old.tsMod
    IN  (elapsed \div NewRateLimiter.Interval) * NewRateLimiter.PerInterval

\* bucket k after a refill of what was due, capped at Capacity
RefilledBucket(k) ==
    LET sum == Lookup(gate.before, k).val + RefillDue(k)
    IN  [val |-> IF sum > NewRateLimiter.Capacity
                 THEN NewRateLimiter.Capacity ELSE sum,
         tsMod |-> gate.at]

\* C12 as claimed: after a rejected request the rate-limit store is what it
\* was before the request.
C12_AsClaimed == Rejected => store = gate.before

\* C12 amended: a rejected request is not charged and leaves every bucket
\* but the one the quota step consulted as it was; rejected with
\* TokenMissing or TokenInvalid it leaves the whole store as it was; when
\* the limiter was consulted, the consulted bucket has been refilled (value
\* raised by the refill due, capped at Capacity, lastModified set to the
\* time of the request) if a refill was due, and is as it was otherwise.
C12_RejectedFrame ==
    Rejected =>
        /\ gate.charged = Nil
        /\ \A k \in DOMAIN store \cup DOMAIN gate.before :
              k # gate.asked => /\ k \in DOMAIN store
                                /\ k \in DOMAIN gate.before
                                /\ store[k] = gate.before[k]
        /\ gate.err \in {"ErrAPITokenMissing", "ErrAPITokenInvalid"}
              => store = gate.before
        /\ (gate.asked # Nil /\ gate.err # "ErrAPITokenInvalid") =>
              IF RefillDue(gate.asked) > 0
              THEN Lookup(store, gate.asked) = RefilledBucket(gate.asked)
              ELSE store = gate.before

\* C12 witness: a request with a valid API token and no user token, on a
\* method that needs user auth, was rejected by the user-identity step
\* after the quota step had refilled the token's bucket
C12_Witness ==
    /\ Rejected
    /\ gate.err = "ErrUserTokenMissing"
    /\ gate.asked = gate.req.apiTok
    /\ RefillDue(gate.asked) > 0
    /\ store # gate.before
    /\ Lookup(store, gate.asked).val = NewRateLimiter.Capacity

\* C13: after the handler of an admitted request has returned, the key
\* RateLimiter.Use was called with is the key the quota step asked the
\* limiter about, for token policies and address policies alike.
C13_SameKey == gate.charged # Nil => gate.charged = gate.asked

\* the policies that limit by address
AddressPolicies == {f \in GateFlags : (f \div IPRateLimited) % 2 = 1}

\* the caller's address: RemoteAddr "1:7" without its port
RemoteIP == <<49>>

\* C14: on an endpoint limited by address the quota step asks the limiter
\* about the caller's address and nothing else decides: the request is
\* rejected with IPAddrRateLimited exactly when the address's bucket holds
\* nothing, never with an API-token error, whatever API token it carries
\* and whether or not a Secret is configured.
C14_AddressOnly ==
    (JustChecked /\ gate.req.flags \in AddressPolicies) =>
        /\ gate.asked = RemoteIP
        /\ gate.err \notin {"ErrAPITokenMissing", "ErrAPITokenInvalid",
                            "ErrAPITokenRateLimited", "ErrUnknownProblem"}
        /\ gate.err = "ErrIPAddrRateLimited"
              <=> Lookup(store, RemoteIP).val <= 0

\* C14 witness: with no Secret configured a request carrying garbage for an
\* API token was admitted on an address-limited endpoint
C14_Witness ==
    /\ JustChecked
    /\ gate.req.flags \in AddressPolicies
    /\ secretCfg = NilSecret
    /\ gate.req.apiTok = Garbage
    /\ gate.asked = RemoteIP
    /\ gate.handled

\* C15: when an admitted request carries a user token that verifies to a
\* user, the wrapped handler reads that user from the _asUser parameter.
C15_HandlerSeesUser ==
    (gate.handled /\ UserTokVerifies) =>
        gate.seen = ExtractUser(gate.req.userTok, secretCfg, gate.at)

\* ------------------------------------------------------------------------
\* Properties of the rate limiter
\* ------------------------------------------------------------------------

\* the last call was a CanUse or CanUseRaw that got as far as the bucket
Consulted ==
    /\ lim.last.op \in {"CanUse", "CanUseRaw"}
    /\ lim.last.res # "TokenInvalid"

\* the value such a call obtains: the value before it plus the refill due,
\* capped at Capacity, when a refill is due, the value before it otherwise
Obtained ==
    LET due == Due(lim.cfg, lim.last.before, lim.last.at)
        sum == lim.last.before.val + due
    IN  IF due > 0
        THEN (IF sum > lim.cfg.Capacity THEN lim.cfg.Capacity ELSE sum)
        ELSE lim.last.before.val

\* C16: with Capacity 5, Interval 1 and PerInterval 1, on a fresh key, five
\* times CanUse followed by Use of one unit give Success each time, the
\* sixth CanUse gives RateLimited, the CanUse after a sleep of one Interval
\* gives Success with one unit in the bucket, and after one more Use of one
\* unit CanUse gives RateLimited.
C16_DepleteRefill ==
    (lim.set /\ lim.cfg = TestLimiter) =>
        /\ lim.script \in {1, 3, 5, 7, 9} => lim.last.res = "Success"
        /\ lim.script = 11 => lim.last.res = "RateLimited"
        /\ lim.script = 13 => /\ lim.last.res = "Success"
                              /\ Lookup(store, LimToken).val = 1
        /\ lim.script = 15 => lim.last.res = "RateLimited"

\* C16 witness: the whole script has run
C16_Witness ==
    /\ lim.set
    /\ lim.cfg = TestLimiter
    /\ lim.script = 15
    /\ lim.last.op = "CanUse"
    /\ lim.last.res = "RateLimited"

\* C17: CanUseRaw gives RateLimited exactly when the value it obtains is
\* <= 0 and Success exactly when it is > 0, and nothing else; the value it
\* obtains is what the bucket holds afterwards.
C17_ResultByValue ==
    Consulted =>
        /\ lim.last.res \in {"Success", "RateLimited"}
        /\ lim.last.res = "RateLimited" <=> Obtained <= 0
        /\ lim.last.res = "Success" <=> Obtained > 0
        /\ Lookup(store, lim.last.key).val = Obtained

\* C17 witness: a bucket in debt was refilled to exactly zero and the call
\* gave RateLimited
C17_Witness ==
    /\ Consulted
    /\ lim.last.before.val < 0
    /\ Due(lim.cfg, lim.last.before, lim.last.at) > 0
    /\ Obtained = 0
    /\ lim.last.res = "RateLimited"

\* C18: Use(identity, d) leaves the bucket holding the old value minus d,
\* below zero if it comes to that, with lastModified the time of the call.
C18_UseSubtracts ==
    lim.last.op = "Use" =>
        Lookup(store, lim.last.key) =
            [val |-> lim.last.before.val - lim.last.arg,
             tsMod |-> lim.last.at]

\* C18 witness: a Use took a bucket that held something below zero
C18_Witness ==
    /\ lim.last.op = "Use"
    /\ lim.last.before.val > 0
    /\ lim.last.arg > lim.last.before.val
    /\ Lookup(store, lim.last.key).val < 0

\* C19: a charge larger than what the bucket holds leaves it negative, and
\* from then on CanUse on the key gives RateLimited as long as the refills
\* credited since do not exceed the debt: refills equal to the debt (a
\* bucket at exactly zero) still give RateLimited.
C19_DebtPersists ==
    /\ (lim.last.op = "Use" /\ lim.last.arg > lim.last.before.val)
          => Lookup(store, lim.last.key).val < 0
    /\ (lim.last.op = "CanUse" /\ lim.last.key = LimToken /\ lim.debt.live)
          => (lim.last.res = "RateLimited"
                <=> lim.debt.credited <= lim.debt.owed)

\* C19 witness: the refills credited have come to exactly the debt, and
\* CanUse gave RateLimited
C19_Witness ==
    /\ lim.last.op = "CanUse"
    /\ lim.last.key = LimToken
    /\ lim.debt.live
    /\ lim.debt.owed > 0
    /\ lim.debt.credited = lim.debt.owed
    /\ lim.last.res = "RateLimited"

\* C20: every bucket holds at most Capacity, whatever CanUse, CanUseRaw and
\* Use calls with charges >= 0 were made.
C20_AtMostCapacity ==
    lim.set => \A k \in DOMAIN store : store[k].val <= lim.cfg.Capacity

\* C20 witness: a refill that would have taken a used bucket past Capacity
\* left it at Capacity
C20_Witness ==
    /\ Consulted
    /\ lim.last.before.tsMod # 0
    /\ lim.last.before.val > 0
    /\ lim.last.before.val + Due(lim.cfg, lim.last.before, lim.last.at)
          > lim.cfg.Capacity
    /\ Lookup(store, lim.last.key).val = lim.cfg.Capacity

\* whole Intervals between the bucket's lastModified and the last call
TicksElapsed ==
    LET kv == lim.last.before
        elapsed == IF kv.tsMod = 0 THEN MaxDuration ELSE lim.last.at - kv.tsMod
    IN  elapsed \div lim.cfg.Interval

\* C21: a CanUse or CanUseRaw that finds less than one Interval elapsed
\* since the key's lastModified leaves the store as it was (value and
\* lastModified); Get returns the stored value, 0 for an unseen key, and
\* leaves the store as it was, creating no key.
C21_StaleRead ==
    /\ (Consulted /\ TicksElapsed = 0) => store = lim.last.m
    /\ lim.last.op = "Get" =>
          /\ store = lim.last.m
          /\ lim.last.arg = IF lim.last.key \in DOMAIN lim.last.m
                            THEN lim.last.m[lim.last.key].val ELSE 0

\* C21 witness: a call made one tick after the bucket was last modified,
\* under an Interval of two ticks, left the bucket as it was
C21_Witness ==
    /\ Consulted
    /\ lim.cfg = SlowLimiter
    /\ lim.last.before.tsMod # 0
    /\ lim.last.at = lim.last.before.tsMod + 1
    /\ TicksElapsed = 0
    /\ Lookup(store, lim.last.key) = lim.last.before

\* C22: CanUse gives TokenInvalid for every token that does not verify,
\* whatever the store holds under that string, and leaves the store as it
\* was: no bucket is read, refilled or created.
C22_VerifyFirst ==
    (lim.last.op = "CanUse" /\ ~Verify(lim.last.key, SecretA, lim.last.at))
        => /\ lim.last.res = "TokenInvalid"
           /\ store = lim.last.m

\* C22 witness: a string that is no token, whose bucket exists, holds
\* nothing and is due a refill, got TokenInvalid
C22_Witness ==
    /\ lim.last.op = "CanUse"
    /\ lim.last.key = LimAddr
    /\ LimAddr \in DOMAIN store
    /\ store[LimAddr].val <= 0
    /\ TicksElapsed > 0
    /\ lim.last.res = "TokenInvalid"

\* RateLimiter.TokenTimeout of the revision that had one: 24 hours, taken
\* as one clock tick
TokenTimeout == 1

\* apiTokData.TS of a token: the time it was issued
TokenTS(token) == Extract(token, SecretA, 1)[4]

\* C23: an API token is not accepted later than its issue time plus
\* TokenTimeout: CanUse does not give Success for it after that.
C23_MaxAge ==
    (lim.last.op = "CanUse" /\ lim.last.key = LimToken
        /\ lim.last.res = "Success")
        => lim.last.at <= TokenTS(LimToken) + TokenTimeout

\* C28: a user token lives for UserTokTTL from its issue and no longer:
\* ExtractUser under the issuing secret returns the user at every time up
\* to issue + UserTokTTL and the empty string at every later time, however
\* often the token was extracted before.
C28_FixedLifetime ==
    (utOut.done /\ utSeg = "none" /\ utOut.secret = utIssued.secret)
        => utOut.user = IF now <= utIssued.at + UserTokTTL
                        THEN utIssued.user ELSE <<>>

\* C28 witness: a token that had been extracted with success before came
\* back empty once its lifetime was over
C28_Witness ==
    /\ utOut.done
    /\ utSeg = "none"
    /\ utOut.secret = utIssued.secret
    /\ utIssued.used
    /\ utIssued.user # <<>>
    /\ now > utIssued.at + UserTokTTL
    /\ utOut.user = <<>>

\* ------------------------------------------------------------------------
\* Properties of RateLimitMem under concurrent calls
\* ------------------------------------------------------------------------

\* the refill that the clock allows a key since the map first held it
RefillAllowed(k) ==
    ((now - conc.hist[k].base) \div ConcLimiter.Interval)
        * ConcLimiter.PerInterval

\* C24: under every interleaving of CanUse and Use calls on one key, the
\* budget that refills have credited to the key for elapsed time is at most
\* floor(elapsed / Interval) * PerInterval for the time elapsed since the
\* key came into being: no tick is credited twice.
C24_NoOverGrant ==
    \A k \in ConcKeys :
        conc.hist[k].live => conc.hist[k].credited <= RefillAllowed(k)

\* C25: IncrByCeil(key, amount, max) stores min(old + amount, max), old
\* being 0 for an unseen key, returns that value, reports clamped exactly
\* when old + amount > max, and stamps lastModified with the time of the
\* call.
C25_IncrContract ==
    conc.lastIncr.done =>
        LET c == conc.lastIncr
            sum == c.old + c.amount
        IN  /\ c.val = IF sum > c.max THEN c.max ELSE sum
            /\ c.maxd = (sum > c.max)
            /\ c.stored = [val |-> c.val, tsMod |-> c.at]

\* C26: no update is lost. While nothing was clamped, a key's value is the
\* sum of all increments made on it less the sum of all decrements, in
\* whatever order the goroutines' calls were interleaved.
C26_NoLostUpdate ==
    \A k \in ConcKeys :
        (conc.hist[k].live /\ ~conc.hist[k].clamped)
            => /\ k \in DOMAIN store
               /\ store[k].val = Wrap(conc.hist[k].incs - conc.hist[k].decs)

\* C26 witness: a key that took direct increments, a refill by CanUseRaw
\* and decrements, none of them clamped, while the other goroutine stood
\* between the two steps of its own CanUseRaw
C26_Witness ==
    \E k \in ConcKeys : \E p \in ConcProcs :
        /\ conc.hist[k].live
        /\ ~conc.hist[k].clamped
        /\ conc.hist[k].credited > 0
        /\ conc.hist[k].incs > conc.hist[k].credited
        /\ conc.hist[k].decs > 0
        /\ conc.g[p].pc = "canuse"
        /\ conc.g[p].key = k

\* C27: Clean deletes no key that was written between its collection of
\* the stale keys and its deletion of them.
C27_SweepKeeps == conc.sweep.lost = {}

\* ------------------------------------------------------------------------
\* Properties of the broadcast System
\* ------------------------------------------------------------------------

\* the ids of a user's broadcasts that their owners take to be live
LiveIDs(user) == {o.id : o \in {x \in OpenAt(bc.open, now) : x.user = user}}

\* C29: a user has at most one live broadcast. StartBroadcast(user) while
\* the user's broadcast is live returns ErrUserIsBroadcasting and leaves
\* the earlier id the one GetBroadcastID(user) returns; whatever the
\* interleaving of StartBroadcast calls, the started broadcasts of a user
\* that have neither ended nor expired are at most one, the one
\* GetBroadcastID returns.
C29_SingleBroadcast ==
    /\ (bc.last.op = "Start" /\ bc.last.cur # RedisNil)
          => /\ bc.last.err = "ErrUserIsBroadcasting"
             /\ bc.last.after = bc.last.cur
    /\ \A user \in BcUsers :
          /\ Cardinality(LiveIDs(user)) <= 1
          /\ LiveIDs(user) \subseteq {GetBroadcastID(bc.db, user, now).id}

\* C29 witness: of two StartBroadcast calls for one user that overlapped,
\* the one that made its id first came to its SET second and was refused,
\* the other's broadcast being the live one
C29_Witness ==
    /\ bc.last.op = "Start"
    /\ bc.last.overlap
    /\ bc.last.err = "ErrUserIsBroadcasting"
    /\ LiveIDs(bc.last.user) = {bc.last.cur}

\* C30: StillAlive(id) and EndBroadcast(id), id an id that StartBroadcast
\* returned for a user, act only when id is that user's current id.
\* Otherwise they return the broadcast-ended error and change nothing;
\* with the current id StillAlive succeeds and renews its expiry, and
\* EndBroadcast succeeds and removes it, so that a second EndBroadcast of
\* the id is of the other kind.
C30_CurrentOnly ==
    (bc.last.op \in {"StillAlive", "End"} /\ bc.last.started)
        => IF bc.last.cur = bc.last.id
           THEN /\ bc.last.err = ""
                /\ IF bc.last.op = "End"
                   THEN RedisGet(bc.db, UserKey(bc.last.user), bc.last.at)
                            = RedisNil
                   ELSE bc.db[UserKey(bc.last.user)]
                            = [val |-> bc.last.id,
                               exp |-> bc.last.at + AlivenessPeriod]
           ELSE /\ bc.last.err = "errBroadcastEnded"
                /\ bc.db = bc.last.before

\* C31: a broadcast is the user's current one for AlivenessPeriod after
\* StartBroadcast or its last successful StillAlive, and no longer: until
\* then GetBroadcastID returns its id; once the period has passed with no
\* StillAlive, GetBroadcastID returns the empty id, StillAlive of the id
\* returns the broadcast-ended error and StartBroadcast succeeds.
C31_Aliveness ==
    /\ \A user \in BcUsers :
          IF LiveIDs(user) = {}
          THEN GetBroadcastID(bc.db, user, now).id = <<>>
          ELSE LiveIDs(user) = {GetBroadcastID(bc.db, user, now).id}
    /\ (bc.last.op = "StillAlive" /\ bc.last.started /\ ~bc.last.live)
          => bc.last.err = "errBroadcastEnded"
    /\ (bc.last.op = "Start" /\ ~bc.last.busy) => bc.last.err = ""

\* ------------------------------------------------------------------------
\* Properties settled after the first pass over the gate
\* ------------------------------------------------------------------------

\* C36: the identity the wrapped handler reads from the _asUser parameter
\* cannot be forged: whenever the handler reads a non-empty value there,
\* the request carried a user token that verifies, and the value is the
\* user of that token, never a value the client put into the URL.
C36_NoForgery ==
    (gate.handled /\ gate.seen # <<>>)
        => /\ UserTokVerifies
           /\ gate.seen = gate.user

\* the RequireUserAuth flag of a method, 0 for a method that has none
FlagOf(method) ==
    CASE method = "GET" -> 8
      [] method = "POST" -> 16
      [] method = "PUT" -> 32
      [] method = "HEAD" -> 64
      [] method = "DELETE" -> 128
      [] OTHER -> 0

\* the flags with bit value f set, f a power of two
Contains(flags, f) == f > 0 /\ (flags % (2 * f)) >= f

\* all five RequireUserAuth flags are set
AllFive(flags) == \A f \in {8, 16, 32, 64, 128} : Contains(flags, f)

\* C39: requiresUserAuth is true exactly when the flags contain the
\* RequireUserAuth flag of the request's method or contain all five; with
\* all five it is true for every method, with fewer a method outside the
\* five never requires user auth.
C39_RequiresUserAuth ==
    rua.done =>
        (rua.res <=> (AllFive(rua.flags)
                        \/ Contains(rua.flags, FlagOf(rua.method))))

\* C39 witness: with all five flags set a method outside the five required
\* user auth
C39_Witness ==
    /\ rua.done
    /\ rua.method = "PATCH"
    /\ rua.flags = RequireUserAuthAlways + IPRateLimited
    /\ rua.res

\* C37: the first CanUse or CanUseRaw of an identifier the store has never
\* seen fills its bucket to Capacity and returns Success, whatever the
\* limiter's positive Capacity, Interval and PerInterval.
C37_FirstUse ==
    (Consulted /\ lim.last.before.tsMod = 0)
        => /\ lim.last.res = "Success"
           /\ Lookup(store, lim.last.key).val = lim.cfg.Capacity

\* the refill that the time left on the clock brings at the least: a
\* refill stamps lastModified with the time of the poll, so a poll that
\* comes late in an Interval gives up the part of it that had elapsed,
\* and a PerInterval can take up to 2 * Interval - 1 ticks
RefillAhead ==
    ((LimMaxTime - now) \div (2 * lim.cfg.Interval - 1)) * lim.cfg.PerInterval

\* the address was just refused, its bucket exists, and the time left on
\* the clock is enough to pay its debt off
LimitedInDebt ==
    /\ lim.set
    /\ lim.last.op = "CanUseRaw"
    /\ lim.last.res = "RateLimited"
    /\ LimAddr \in DOMAIN store
    /\ Lookup(store, LimAddr).val + RefillAhead > 0

\* CanUseRaw admitted the address
Recovered == lim.last.op = "CanUseRaw" /\ lim.last.res = "Success"

\* the address was charged again
UsedAgain == lim.last.op = "Use" /\ lim.last.key = LimAddr

\* C38: a key that is rate-limited with a finite debt recovers: unless Use
\* is applied to it again, some later CanUseRaw on it gives Success as time
\* advances, however the polls fall between the ticks.
C38_Recovery == LimitedInDebt ~> (Recovered \/ UsedAgain)

\* C38 witness: a bucket that was in debt when it was last written and has
\* been refilled since in steps: the poll that admitted it found it at zero
C38_Witness ==
    /\ Recovered
    /\ lim.last.before.val = 0
    /\ lim.last.before.tsMod > 1
    /\ lim.last.at > lim.last.before.tsMod

\* ------------------------------------------------------------------------
\* Properties of package room
\* ------------------------------------------------------------------------

\* the users a list names
Listed(l) == {l[i] : i \in 1..Len(l)}

\* no user is named twice
NoTwice(l) == \A i, j \in 1..Len(l) : l[i] = l[j] => i = j

\* C32: room membership is a set per room. Members names no user twice and
\* Cardinality is the number of Members, in every room and every state;
\* CheckIn of a user who is in the room leaves the room's members and
\* Cardinality as they were; CheckOut of a user who is not in the room
\* changes nothing; CheckIn and CheckOut leave what Members and Cardinality
\* answer for every other room unchanged.
C32_MembershipSet ==
    /\ \A r \in Rooms :
         /\ NoTwice(Members(rm.db, r))
         /\ RoomCardinality(rm.db, r) = Len(Members(rm.db, r))
    /\ rm.last.op = "CheckIn"
         /\ rm.last.id \in Listed(rm.last.before[rm.last.room])
         => /\ Listed(rm.last.after[rm.last.room])
                = Listed(rm.last.before[rm.last.room])
            /\ rm.last.cardAfter[rm.last.room]
                = rm.last.cardBefore[rm.last.room]
    /\ rm.last.op = "CheckOut"
         /\ rm.last.id \notin Listed(rm.last.before[rm.last.room])
         => /\ rm.last.after = rm.last.before
            /\ rm.last.cardAfter = rm.last.cardBefore
    /\ rm.last.op \in {"CheckIn", "CheckOut"}
         => \A r \in Rooms \ {rm.last.room} :
              /\ rm.last.after[r] = rm.last.before[r]
              /\ rm.last.cardAfter[r] = rm.last.cardBefore[r]

\* C32 witness: a user of a room of two checked in again after the clock
\* had moved: Members names the same two users, in another order
C32_Witness ==
    /\ rm.last.op = "CheckIn"
    /\ rm.last.id \in Listed(rm.last.before[rm.last.room])
    /\ Len(rm.last.before[rm.last.room]) = 2
    /\ rm.last.after[rm.last.room] # rm.last.before[rm.last.room]

\* C33: removeIdle removes no user whose last CheckIn is more recent than
\* CheckInPeriod: every user its last command took out of a room had checked
\* in CheckInPeriod or longer before.
C33_RecentKept ==
    \A x \in rm.swept : x.at - x.checked >= CheckInPeriod

\* ------------------------------------------------------------------------
\* Properties of package user
\* ------------------------------------------------------------------------

\* the goroutines p and q have both returned from calls of Create that ran
\* at the same time, for one username that no Create had made
RacedForNew(p, q) ==
    /\ p # q
    /\ us.g[p].pc = "done" /\ us.g[q].pc = "done"
    /\ us.g[p].user = us.g[q].user
    /\ us.g[p].raced /\ us.g[q].raced
    /\ us.g[p].fresh /\ us.g[q].fresh

\* C34: creation is atomic and exclusive. Create for a username that a
\* Create has made returns ErrUserExists; a Create that returns ErrUserExists
\* leaves every stored field as it was; of two Creates that run at the same
\* time for the same new username exactly one returns nil.
C34_CreateExclusive ==
    /\ us.last.op = "Create" /\ us.last.existed
         => us.last.err = "ErrUserExists"
    /\ us.last.op = "Create" /\ us.last.err = "ErrUserExists"
         => us.last.same
    /\ \A p, q \in UserProcs :
         RacedForNew(p, q)
         => Cardinality({x \in {p, q} : us.g[x].err = ""}) = 1

\* the last call was made on a user that Create had made, between a Disable
\* and the next Enable
OnDisabled == us.last.existed /\ us.last.wasOff

\* the last call was made on a user that Create had made, outside such a
\* stretch
OnEnabled == us.last.existed /\ ~us.last.wasOff

C35_AgainWitness ==
    /\ OnEnabled
    /\ us.last.op = "Authenticate"
    /\ us.last.err = ""
    /\ Fields.TSModified.Key \in DOMAIN HGetAll(us.db, UserHashKey(us.last.user))
    /\ HGet(us.db, UserHashKey(us.last.user), Fields.TSModified.Key)
         # HGet(us.db, UserHashKey(us.last.user), Fields.TSCreated.Key)

====
